---------------------------- MODULE Spec2Model ----------------------------
(***************************************************************************)
(* A model of lib/spack/spack/compiler.py: the Compiler value object, its  *)
(* normalized descriptor and cache key, the scoped environment mutation    *)
(* compiler_environment, and the cross-process FileCompilerCache.          *)
(*                                                                         *)
(* Three specifications share the module:                                  *)
(*   SpecCache  processes calling FileCompilerCache.get concurrently       *)
(*   SpecEnv    one thread running Compiler.compiler_environment           *)
(*   SpecKey    two Compiler objects, their keys, sequential get calls     *)
(***************************************************************************)
EXTENDS Naturals, Sequences, FiniteSets, TLC

(***************************************************************************)
(* Bounds of the model.                                                    *)
(***************************************************************************)
NumProcs == 2
MaxCalls == 2
MaxKeyCalls == 2
MaxScopes == 2
MaxFlagLen == 5
MaxLines == 2
MaxMethodCalls == 2
MaxOutputCalls == 3

(***************************************************************************)
(* Python values.  A dict keeps insertion order: it is a sequence of       *)
(* <<key, value>> pairs with pairwise distinct keys.                       *)
(***************************************************************************)
PyNone == [ty |-> "NoneType"]
PyStr(s) == [ty |-> "str", s |-> s]
PyBool(b) == [ty |-> "bool", b |-> b]
PyList(elems) == [ty |-> "list", elems |-> elems]
PyDict(items) == [ty |-> "dict", items |-> items]

IsStr(v) == v.ty = "str"
IsDict(v) == v.ty = "dict"

Range(seq) == {seq[i] : i \in DOMAIN seq}

DictKeys(d) == {d.items[i][1] : i \in DOMAIN d.items}
DictHas(d, k) == k \in DictKeys(d)
\* d[k] for a key that is present; d.get(k) returns None for a missing one.
DictGet(d, k) ==
    IF DictHas(d, k)
    THEN (d.items[CHOOSE i \in DOMAIN d.items : d.items[i][1] = k])[2]
    ELSE PyNone
\* del d[k]
DictDel(d, k) == PyDict(SelectSeq(d.items, LAMBDA it : it[1] # k))
\* d[k] = v: an existing key keeps its position, a new key goes last.
DictSet(d, k, v) ==
    IF DictHas(d, k)
    THEN PyDict([i \in DOMAIN d.items |->
                    IF d.items[i][1] = k THEN <<k, v>> ELSE d.items[i]])
    ELSE PyDict(Append(d.items, <<k, v>>))

\* Python's ==: dicts compare as sets of items, lists element by element.
RECURSIVE PyEq(_, _)
PyEq(a, b) ==
    IF a.ty # b.ty THEN FALSE
    ELSE IF a.ty = "dict"
         THEN /\ DictKeys(a) = DictKeys(b)
              /\ \A k \in DictKeys(a) : PyEq(DictGet(a, k), DictGet(b, k))
    ELSE IF a.ty = "list"
         THEN /\ Len(a.elems) = Len(b.elems)
              /\ \A i \in DOMAIN a.elems : PyEq(a.elems[i], b.elems[i])
    ELSE a = b

\* " ".join(words)
RECURSIVE Join(_)
Join(words) ==
    IF words = <<>> THEN ""
    ELSE IF Len(words) = 1 THEN words[1]
    ELSE words[1] \o " " \o Join(Tail(words))

(***************************************************************************)
(* JSON documents.  json.dumps writes a dict's members in insertion order; *)
(* None becomes null, a bool true or false.  A text that is no JSON        *)
(* document is JInvalid.                                                   *)
(***************************************************************************)
JNull == [j |-> "null"]
JString(s) == [j |-> "string", s |-> s]
JTrue == [j |-> "true"]
JFalse == [j |-> "false"]
JArray(elems) == [j |-> "array", elems |-> elems]
JObject(members) == [j |-> "object", members |-> members]
JInvalid == [j |-> "invalid"]

\* Mutant of JsonDumps: None is written as the string "None".
RECURSIVE JsonDumpsNoneAsString(_)
JsonDumpsNoneAsString(v) ==
    IF v.ty = "NoneType" THEN JString("None")
    ELSE IF v.ty = "str" THEN JString(v.s)
    ELSE IF v.ty = "bool" THEN (IF v.b THEN JTrue ELSE JFalse)
    ELSE IF v.ty = "list"
         THEN JArray([i \in DOMAIN v.elems |->
                        JsonDumpsNoneAsString(v.elems[i])])
    ELSE JObject([i \in DOMAIN v.items |->
                    <<v.items[i][1], JsonDumpsNoneAsString(v.items[i][2])>>])

RECURSIVE JsonDumps(_)
JsonDumps(v) ==
    IF v.ty = "NoneType" THEN JNull
    ELSE IF v.ty = "str" THEN JString(v.s)
    ELSE IF v.ty = "bool" THEN (IF v.b THEN JTrue ELSE JFalse)
    ELSE IF v.ty = "list"
         THEN JArray([i \in DOMAIN v.elems |-> JsonDumps(v.elems[i])])
    ELSE JObject([i \in DOMAIN v.items |->
                    <<v.items[i][1], JsonDumps(v.items[i][2])>>])

\* json.loads of a valid document (JInvalid raises json.JSONDecodeError).
RECURSIVE JsonLoads(_)
JsonLoads(t) ==
    IF t.j = "null" THEN PyNone
    ELSE IF t.j = "string" THEN PyStr(t.s)
    ELSE IF t.j = "true" THEN PyBool(TRUE)
    ELSE IF t.j = "false" THEN PyBool(FALSE)
    ELSE IF t.j = "array"
         THEN PyList([i \in DOMAIN t.elems |-> JsonLoads(t.elems[i])])
    ELSE PyDict([i \in DOMAIN t.members |->
                    <<t.members[i][1], JsonLoads(t.members[i][2])>>])

(***************************************************************************)
(* Compiler objects (Compiler.__init__).                                   *)
(***************************************************************************)
PATH_INSTANCE_VARS == <<"cc", "cxx", "f77", "fc">>

Compiler(cspec, operating_system, target, paths, modules, alias, environment, extra_rpaths, enable_implicit_rpaths, flags) ==
    [spec |-> cspec,
     operating_system |-> operating_system,
     target |-> target,
     modules |-> modules,
     alias |-> alias,
     environment |-> environment,
     extra_rpaths |-> extra_rpaths,
     enable_implicit_rpaths |-> enable_implicit_rpaths,
     cc |-> paths[1],
     cxx |-> paths[2],
     f77 |-> IF Len(paths) > 2 THEN paths[3] ELSE PyNone,
     fc |-> IF Len(paths) > 2
            THEN (IF Len(paths) = 3 THEN paths[3] ELSE paths[4])
            ELSE PyNone,
     flags |-> flags]

\* The toolchains the model draws from.
PathLists ==
    {<<PyStr("/usr/bin/gcc"), PyStr("/usr/bin/g++")>>,
     <<PyStr("/opt/llvm/bin/clang"), PyStr("/opt/llvm/bin/clang++"),
       PyStr("/usr/bin/gfortran")>>}
Aliases == {PyNone, PyStr("mycc")}
ModuleLists == {<<>>, <<"m1", "m2">>}
SetEnv(pairs) == PyDict(<< <<"set", PyDict(pairs)>> >>)
Environments ==
    {PyDict(<<>>),
     SetEnv(<< <<"A", PyStr("1")>>, <<"B", PyStr("2")>> >>),
     SetEnv(<< <<"B", PyStr("2")>>, <<"A", PyStr("1")>> >>)}
ImplicitRpaths == {PyNone, PyBool(FALSE)}
DefaultFlags == PyDict(<< <<"cflags", <<"-O2", "-include foo.h">> >> >>)

Compilers ==
    {Compiler("gcc@9.3.0", "ubuntu20.04", "x86_64", p,
              PyList([i \in DOMAIN m |-> PyStr(m[i])]), a, e, PyList(<<>>),
              r, DefaultFlags) :
        p \in PathLists, a \in Aliases, m \in ModuleLists, e \in Environments,
        r \in ImplicitRpaths}

\* FlagMap equality: the same flag names with the same token lists.
FlagsEq(f, g) ==
    /\ DictKeys(f) = DictKeys(g)
    /\ \A k \in DictKeys(f) : DictGet(f, k) = DictGet(g, k)

__eq__(self, other) ==
    /\ PyEq(self.cc, other.cc)
    /\ PyEq(self.cxx, other.cxx)
    /\ PyEq(self.fc, other.fc)
    /\ PyEq(self.f77, other.f77)
    /\ self.spec = other.spec
    /\ self.operating_system = other.operating_system
    /\ self.target = other.target
    /\ FlagsEq(self.flags, other.flags)
    /\ PyEq(self.modules, other.modules)
    /\ PyEq(self.environment, other.environment)
    /\ PyEq(self.extra_rpaths, other.extra_rpaths)
    /\ PyEq(self.enable_implicit_rpaths, other.enable_implicit_rpaths)

\* bool(v) for the values the descriptor tests.
Truthy(v) ==
    IF v.ty = "NoneType" THEN FALSE
    ELSE IF v.ty = "str" THEN v.s # ""
    ELSE IF v.ty = "bool" THEN v.b
    ELSE IF v.ty = "list" THEN v.elems # <<>>
    ELSE v.items # <<>>

to_dict(self) ==
    LET flags_dict ==
            PyDict([i \in DOMAIN self.flags.items |->
                      <<self.flags.items[i][1],
                        PyStr(Join(self.flags.items[i][2]))>>])
        paths ==
            PyDict(<< <<"cc", self.cc>>, <<"cxx", self.cxx>>,
                      <<"f77", self.f77>>, <<"fc", self.fc>> >>)
        result ==
            << <<"spec", PyStr(self.spec)>>,
               <<"paths", paths>>,
               <<"flags", flags_dict>>,
               <<"operating_system", PyStr(self.operating_system)>>,
               <<"target", PyStr(self.target)>>,
               <<"modules",
                 IF Truthy(self.modules) THEN self.modules ELSE PyList(<<>>)>>,
               <<"environment",
                 IF Truthy(self.environment) THEN self.environment
                 ELSE PyDict(<<>>)>>,
               <<"extra_rpaths",
                 IF Truthy(self.extra_rpaths) THEN self.extra_rpaths
                 ELSE PyList(<<>>)>> >>
        with_rpaths ==
            IF self.enable_implicit_rpaths # PyNone
            THEN Append(result,
                        <<"implicit_rpaths", self.enable_implicit_rpaths>>)
            ELSE result
        with_alias ==
            IF Truthy(self.alias)
            THEN Append(with_rpaths, <<"alias", self.alias>>)
            ELSE with_rpaths
    IN  PyDict(with_alias)

(***************************************************************************)
(* hashlib.sha256(...).hexdigest(), taken to be collision-free: the digest *)
(* stands for the text it was computed from.                               *)
(***************************************************************************)
hexdigest(as_bytes) == [sha256 |-> as_bytes]

\* Mutant of _key: the modules are left out of what is hashed.
_key_without_modules(compiler) ==
    hexdigest(JsonDumps(DictDel(to_dict(compiler), "modules")))

_key(compiler) == hexdigest(JsonDumps(to_dict(compiler)))

(***************************************************************************)
(* CompilerCacheEntry and CompilerCache.                                   *)
(***************************************************************************)
CompilerCacheEntry(c_compiler_output, real_version) ==
    [c_compiler_output |-> c_compiler_output, real_version |-> real_version]

\* Mutant of from_dict_accepts: an absent compiler output is rejected.
from_dict_requires_output(data) ==
    /\ IsDict(data)
    /\ IsStr(DictGet(data, "real_version"))
    /\ IsStr(DictGet(data, "c_compiler_output"))

\* from_dict raises ValueError exactly when this is FALSE.
from_dict_accepts(data) ==
    /\ IsDict(data)
    /\ IsStr(DictGet(data, "real_version"))
    /\ DictGet(data, "c_compiler_output").ty \in {"str", "NoneType"}

from_dict(data) ==
    CompilerCacheEntry(DictGet(data, "c_compiler_output"),
                       DictGet(data, "real_version"))

\* What the two probes of a compiler can report.  _compile_dummy_c_source
\* returns the verbose output, or None (no verbose flag, ProcessError);
\* get_real_version returns the extracted version, or "unknown".
VerboseOutput(compiler) ==
    IF compiler.cc = PyStr("/usr/bin/gcc")
    THEN "collect2 -L/usr/lib/gcc/9"
    ELSE "ld -L/opt/llvm/lib"
ReportedVersion(compiler) ==
    IF compiler.cc = PyStr("/usr/bin/gcc") THEN "9.3.1" ELSE "14.0.6"

_compile_dummy_c_source(compiler) ==
    {PyNone, PyStr(VerboseOutput(compiler))}
get_real_version(compiler) ==
    {PyStr("unknown"), PyStr(ReportedVersion(compiler))}

\* CompilerCache.value: the set of dicts one probe of the compiler can give.
value(compiler) ==
    {PyDict(<< <<"c_compiler_output", o>>, <<"real_version", v>> >>) :
        o \in _compile_dummy_c_source(compiler),
        v \in get_real_version(compiler)}

ProbeFailure ==
    PyDict(<< <<"c_compiler_output", PyNone>>,
              <<"real_version", PyStr("unknown")>> >>)

(***************************************************************************)
(* FileCompilerCache._get_entry on the in-memory mapping _data: the entry  *)
(* (None when there is none), _data afterwards, and whether an exception   *)
(* leaves the method.                                                      *)
(***************************************************************************)
\* Mutant of _get_entry: ValueError is not caught.
_get_entry_uncaught(_data, key) ==
    IF ~DictHas(_data, key)
    THEN [entry |-> PyNone, _data |-> _data, raised |-> FALSE]
    ELSE IF from_dict_accepts(DictGet(_data, key))
    THEN [entry |-> from_dict(DictGet(_data, key)), _data |-> _data,
          raised |-> FALSE]
    ELSE [entry |-> PyNone, _data |-> _data, raised |-> TRUE]

_get_entry(_data, key) ==
    IF ~DictHas(_data, key)
    THEN \* except KeyError: pass
         [entry |-> PyNone, _data |-> _data, raised |-> FALSE]
    ELSE IF from_dict_accepts(DictGet(_data, key))
    THEN [entry |-> from_dict(DictGet(_data, key)), _data |-> _data,
          raised |-> FALSE]
    ELSE \* except ValueError: del self._data[key]
         [entry |-> PyNone, _data |-> DictDel(_data, key), raised |-> FALSE]

(***************************************************************************)
(* The backing file.  Its contents are a JSON text, JInvalid for a text    *)
(* that does not parse, FileMissing when the file does not exist (the      *)
(* transaction then yields None), FileTorn while a write is under way.     *)
(***************************************************************************)
FileMissing == [j |-> "missing"]
FileTorn == [j |-> "torn"]

\* The try-block of get: f.read(), json.loads, the two assertions; {} when
\* json.JSONDecodeError or AssertionError is caught.
LoadData(file) ==
    IF file.j \in {"missing", "invalid", "torn"} THEN PyDict(<<>>)
    ELSE IF ~IsDict(JsonLoads(file)) THEN PyDict(<<>>)
    ELSE JsonLoads(file)

(***************************************************************************)
(* State.                                                                  *)
(***************************************************************************)
VARIABLES
    \* FileCompilerCache, one object per process
    store,        \* contents of compilers/compilers.json
    initEntry,    \* per key, what the file held before the first call
    readers,      \* processes holding the shared (read) lock
    writer,       \* the process holding the exclusive (write) lock, or 0
    pc,           \* where each process is inside get
    comp,         \* the compiler each process was called with
    key,          \* its key
    data,         \* self._data of each process
    result,       \* what the last finished call returned
    calls,        \* calls of get begun so far, by all processes
    \* history of the cache, for the properties
    didProbe,     \* the current call ran value()
    raceLost,     \* missed in the read, found the key committed on locking
    lastCommit,   \* the file text as of the last completed write (or the start)
    probeCount,   \* runs of value() per key
    firstProbe,   \* what the first run of value() per key gave
    committed,    \* the first valid entry committed per key
    lastReturned, \* what the latest finished call returned, per key
    prior,        \* lastReturned[key] when the call began
    \* Compiler.compiler_environment, per thread of one process
    environ,      \* os.environ, shared by the threads
    self,         \* the Compiler whose scope the thread runs
    epc,          \* where the thread is inside compiler_environment
    backup_env,   \* the thread's copy of os.environ
    loaded,       \* modules loaded so far by the thread
    failed,       \* an exception is propagating out of the scope
    scopes,       \* scopes entered so far, by all threads
    envBefore,    \* os.environ when the thread entered its scope
    envInside,    \* os.environ when the operation began
    envAfterOp,   \* os.environ when the operation ended
    envSeen,      \* os.environ as the thread's operation found it
    envOuter,     \* os.environ when a scope was entered with no scope open
    lastExit,     \* the thread that left a scope last, or 0
    \* two Compiler objects and a cache they are looked up in, in sequence
    ka, kb,       \* the two compilers
    kstore,       \* the cache file
    kcalls,       \* calls of get so far
    kprobes,      \* runs of value() for "a" and for "b"
    kvalue,       \* what the last run of value() for each gave
    kres,         \* what the last get for each returned
    \* tokenize_flags
    flags_values, \* the flag string
    propagate,    \* the propagate argument
    flags_with_propagation,  \* what tokenize_flags returned
    tokenized,    \* tokenize_flags has returned
    \* _parse_link_paths and _parse_non_system_link_dirs
    string,       \* the compiler's verbose output
    lpc,          \* "start", or the function that has returned
    line_dirs,    \* per line of the output, what it added to raw_link_dirs
    raw_link_dirs,       \* raw_link_dirs at the end of the scan
    implicit_link_dirs,  \* what _parse_link_paths returned
    link_dirs,    \* what _parse_non_system_link_dirs returned
    \* the methods of one Compiler (self), called one after another
    cache_file,   \* the file behind self.cache
    mcalls,       \* calls made so far
    method,       \* the method called last, or "none"
    returned,     \* what it returned
    raised,       \* the exception that left it
    transactions, \* cache transactions started so far
    invocations,  \* runs of the compiler so far
    pre,          \* the cache file and the two counts when the call began
    \* get_compiler_version_output
    func_cache,   \* the memo table of _get_compiler_version_output
    ocalls,       \* calls made so far
    last          \* the last call: its arguments and its outcome

cacheVars == <<store, initEntry, readers, writer, pc, comp, key, data, result, calls,
               didProbe, raceLost, lastCommit, probeCount, firstProbe,
               committed, lastReturned, prior>>
envGhosts == <<envSeen, envOuter, lastExit>>
envVars == <<environ, self, epc, backup_env, loaded, failed, scopes,
             envBefore, envInside, envAfterOp, envGhosts>>
keyVars == <<ka, kb, kstore, kcalls, kprobes, kvalue, kres>>
flagVars == <<flags_values, propagate, flags_with_propagation, tokenized>>
linkVars == <<string, lpc, line_dirs, raw_link_dirs, implicit_link_dirs,
              link_dirs>>
methVars == <<cache_file, mcalls, method, returned, raised, transactions,
              invocations, pre>>
memoVars == <<func_cache, ocalls, last>>
lateVars == <<methVars, memoVars>>
restVars == <<flagVars, linkVars, lateVars>>
vars == <<cacheVars, envVars, keyVars, restVars>>

FlagsAtRest ==
    /\ flags_values = ""
    /\ propagate = FALSE
    /\ flags_with_propagation = <<>>
    /\ tokenized = FALSE
LinkAtRest ==
    /\ string = ""
    /\ lpc = "start"
    /\ line_dirs = <<>>
    /\ raw_link_dirs = <<>>
    /\ implicit_link_dirs = <<>>
    /\ link_dirs = <<>>
NoError == [type |-> "none"]
MethodsAtRest ==
    /\ cache_file = [j |-> "missing"]
    /\ mcalls = 0
    /\ method = "none"
    /\ returned = [ty |-> "NoneType"]
    /\ raised = NoError
    /\ transactions = 0
    /\ invocations = 0
    /\ pre = [cache_file |-> cache_file, transactions |-> 0,
              invocations |-> 0]
NoCall == [outcome |-> "none"]
MemoAtRest ==
    /\ func_cache = {}
    /\ ocalls = 0
    /\ last = NoCall
LateAtRest == MethodsAtRest /\ MemoAtRest
RestAtRest == FlagsAtRest /\ LinkAtRest /\ LateAtRest

Procs == 1 .. NumProcs

(***************************************************************************)
(* The toolchains the cache is asked about, and the stores it may find.    *)
(***************************************************************************)
GccCompiler ==
    Compiler("gcc@9.3.0", "ubuntu20.04", "x86_64",
             <<PyStr("/usr/bin/gcc"), PyStr("/usr/bin/g++")>>,
             PyList(<<>>), PyNone, PyDict(<<>>), PyList(<<>>), PyNone,
             DefaultFlags)
ClangCompiler ==
    Compiler("gcc@9.3.0", "ubuntu20.04", "x86_64",
             <<PyStr("/opt/llvm/bin/clang"), PyStr("/opt/llvm/bin/clang++"),
               PyStr("/usr/bin/gfortran")>>,
             PyList(<<>>), PyNone, PyDict(<<>>), PyList(<<>>), PyNone,
             DefaultFlags)
CachePool == {GccCompiler, ClangCompiler}
PoolKeys == {_key(c) : c \in CachePool}

\* An entry an earlier run committed for the compiler.
EarlierEntry(compiler) ==
    JObject(<< <<"c_compiler_output", JString(VerboseOutput(compiler))>>,
               <<"real_version", JString(ReportedVersion(compiler))>> >>)
\* Entries from_dict rejects: not an object; real_version not a string.
JunkEntry == JString("junk")
NoVersionEntry ==
    JObject(<< <<"c_compiler_output", JNull>>, <<"real_version", JNull>> >>)

\* Keys nobody asks for: a toolchain of an earlier run, and a stale name.
OtherCompiler ==
    Compiler("gcc@12.1.0", "ubuntu20.04", "x86_64",
             <<PyStr("/opt/gcc12/bin/gcc"), PyStr("/opt/gcc12/bin/g++")>>,
             PyList(<<>>), PyNone, PyDict(<<>>), PyList(<<>>), PyNone,
             DefaultFlags)
ForeignKeys == {_key(OtherCompiler), hexdigest(JString("stale"))}
StoreOfOthers ==
    JObject(<< <<_key(OtherCompiler), EarlierEntry(OtherCompiler)>>,
               <<hexdigest(JString("stale")), JunkEntry>> >>)

InitStores ==
    {FileMissing, JInvalid, JArray(<<>>), JObject(<<>>), StoreOfOthers,
     JObject(<< <<_key(GccCompiler), JunkEntry>>,
                <<_key(ClangCompiler), NoVersionEntry>> >>),
     JObject(<< <<_key(GccCompiler), EarlierEntry(GccCompiler)>> >>)}

\* The valid entry the file holds under key k, None when it holds none.
StoredEntry(file, k) ==
    LET d == LoadData(file)
    IN  IF DictHas(d, k) /\ from_dict_accepts(DictGet(d, k))
        THEN from_dict(DictGet(d, k))
        ELSE PyNone

(***************************************************************************)
(* FileCache transactions: a shared lock for read_transaction, an          *)
(* exclusive one for write_transaction.                                    *)
(***************************************************************************)
read_transaction_free == writer = 0
write_transaction_free == writer = 0 /\ readers = {}

InitCache ==
    /\ store \in InitStores
    /\ initEntry = [k \in PoolKeys |->
                       IF StoredEntry(store, k) # PyNone THEN "valid"
                       ELSE IF DictHas(LoadData(store), k) THEN "malformed"
                       ELSE "absent"]
    /\ readers = {}
    /\ writer = 0
    /\ pc = [p \in Procs |-> "idle"]
    /\ comp = [p \in Procs |-> GccCompiler]
    /\ key = [p \in Procs |-> _key(GccCompiler)]
    /\ data = [p \in Procs |-> PyDict(<<>>)]
    /\ result = [p \in Procs |-> PyNone]
    /\ calls = 0
    /\ didProbe = [p \in Procs |-> FALSE]
    /\ raceLost = [p \in Procs |-> FALSE]
    /\ lastCommit = store
    /\ probeCount = [k \in PoolKeys |-> 0]
    /\ firstProbe = [k \in PoolKeys |-> PyNone]
    /\ committed = [k \in PoolKeys |-> StoredEntry(store, k)]
    /\ lastReturned = [k \in PoolKeys |-> PyNone]
    /\ prior = [p \in Procs |-> PyNone]

(***************************************************************************)
(* FileCompilerCache.get, one action per step that touches the lock or the *)
(* file.                                                                   *)
(***************************************************************************)
\* Mutant of ReadAcquire: the file is read without the shared lock.
ReadAcquireUnlocked(p, compiler) ==
    /\ pc[p] \in {"idle", "done", "raised"}
    /\ calls < MaxCalls
    /\ readers' = readers \cup {p}
    /\ pc' = [pc EXCEPT ![p] = "read"]
    /\ comp' = [comp EXCEPT ![p] = compiler]
    /\ key' = [key EXCEPT ![p] = _key(compiler)]
    /\ calls' = calls + 1
    /\ didProbe' = [didProbe EXCEPT ![p] = FALSE]
    /\ raceLost' = [raceLost EXCEPT ![p] = FALSE]
    /\ result' = [result EXCEPT ![p] = PyNone]
    /\ prior' = [prior EXCEPT ![p] = lastReturned[_key(compiler)]]
    /\ UNCHANGED <<envVars, keyVars, restVars, initEntry>>
    /\ UNCHANGED <<store, writer, data, lastCommit, probeCount, firstProbe,
                   committed, lastReturned>>

\* get is called with a compiler and enters the read transaction.
ReadAcquire(p, compiler) ==
    /\ pc[p] \in {"idle", "done", "raised"}
    /\ calls < MaxCalls
    /\ read_transaction_free
    /\ readers' = readers \cup {p}
    /\ pc' = [pc EXCEPT ![p] = "read"]
    /\ comp' = [comp EXCEPT ![p] = compiler]
    /\ key' = [key EXCEPT ![p] = _key(compiler)]
    /\ calls' = calls + 1
    /\ didProbe' = [didProbe EXCEPT ![p] = FALSE]
    /\ raceLost' = [raceLost EXCEPT ![p] = FALSE]
    /\ result' = [result EXCEPT ![p] = PyNone]
    /\ prior' = [prior EXCEPT ![p] = lastReturned[_key(compiler)]]
    /\ UNCHANGED <<envVars, keyVars, restVars, initEntry>>
    /\ UNCHANGED <<store, writer, data, lastCommit, probeCount, firstProbe,
                   committed, lastReturned>>

\* Mutant of ReadExit: a hit goes for the write lock like a miss.
ReadExitAlwaysMiss(p) ==
    /\ pc[p] = "read"
    /\ LET got == _get_entry(LoadData(store), key[p])
       IN  /\ data' = [data EXCEPT ![p] = got._data]
           /\ pc' = [pc EXCEPT ![p] = "miss"]
           /\ UNCHANGED <<result, lastReturned>>
    /\ readers' = readers \ {p}
    /\ UNCHANGED <<envVars, keyVars, restVars, initEntry>>
    /\ UNCHANGED <<store, writer, comp, key, calls, didProbe, raceLost,
                   lastCommit, probeCount, firstProbe, committed, prior>>

\* Mutant of ReadExit: the shared lock is kept when the read has ended.
ReadExitKeepsLock(p) ==
    /\ pc[p] = "read"
    /\ LET got == _get_entry(LoadData(store), key[p])
       IN  /\ data' = [data EXCEPT ![p] = got._data]
           /\ IF got.entry # PyNone
              THEN /\ pc' = [pc EXCEPT ![p] = "done"]
                   /\ result' = [result EXCEPT ![p] = got.entry]
                   /\ lastReturned' = [lastReturned EXCEPT ![key[p]] = got.entry]
              ELSE /\ pc' = [pc EXCEPT ![p] = "miss"]
                   /\ UNCHANGED <<result, lastReturned>>
    /\ readers' = IF pc'[p] = "miss" THEN readers ELSE readers \ {p}
    /\ UNCHANGED <<envVars, keyVars, restVars, initEntry>>
    /\ UNCHANGED <<store, writer, comp, key, calls, didProbe, raceLost,
                   lastCommit, probeCount, firstProbe, committed, prior>>

\* The read transaction reads and parses the file and ends; the key is
\* looked up in what was read: a hit returns, a miss goes for the write lock.
ReadExit(p) ==
    /\ pc[p] = "read"
    /\ LET got == _get_entry(LoadData(store), key[p])
       IN  /\ data' = [data EXCEPT ![p] = got._data]
           /\ IF got.raised
              THEN /\ pc' = [pc EXCEPT ![p] = "raised"]
                   /\ UNCHANGED <<result, lastReturned>>
              ELSE IF got.entry # PyNone
              THEN /\ pc' = [pc EXCEPT ![p] = "done"]
                   /\ result' = [result EXCEPT ![p] = got.entry]
                   /\ lastReturned' = [lastReturned EXCEPT ![key[p]] = got.entry]
              ELSE /\ pc' = [pc EXCEPT ![p] = "miss"]
                   /\ UNCHANGED <<result, lastReturned>>
    /\ readers' = readers \ {p}
    /\ UNCHANGED <<envVars, keyVars, restVars, initEntry>>
    /\ UNCHANGED <<store, writer, comp, key, calls, didProbe, raceLost,
                   lastCommit, probeCount, firstProbe, committed, prior>>

\* Mutant of WriteAcquire: the lock taken excludes no other writer.
WriteAcquireShared(p) ==
    /\ pc[p] = "miss"
    /\ readers = {}
    /\ writer' = p
    /\ pc' = [pc EXCEPT ![p] = "reread"]
    /\ raceLost' = [raceLost EXCEPT ![p] = StoredEntry(store, key[p]) # PyNone]
    /\ UNCHANGED <<envVars, keyVars, restVars, initEntry>>
    /\ UNCHANGED <<store, readers, comp, key, data, result, calls, didProbe,
                   lastCommit, probeCount, firstProbe, committed,
                   lastReturned, prior>>

\* Cache miss: enter the write transaction.
WriteAcquire(p) ==
    /\ pc[p] = "miss"
    /\ write_transaction_free
    /\ writer' = p
    /\ pc' = [pc EXCEPT ![p] = "reread"]
    /\ raceLost' = [raceLost EXCEPT ![p] = StoredEntry(store, key[p]) # PyNone]
    /\ UNCHANGED <<envVars, keyVars, restVars, initEntry>>
    /\ UNCHANGED <<store, readers, comp, key, data, result, calls, didProbe,
                   lastCommit, probeCount, firstProbe, committed,
                   lastReturned, prior>>

\* Mutant of WriteReread: the key is not looked up again under the lock.
WriteRereadNoCheck(p) ==
    /\ pc[p] = "reread"
    /\ data' = [data EXCEPT ![p] = DictDel(LoadData(store), key[p])]
    /\ pc' = [pc EXCEPT ![p] = "compute"]
    /\ UNCHANGED <<envVars, keyVars, restVars, initEntry>>
    /\ UNCHANGED <<store, readers, writer, result, comp, key, calls, didProbe,
                   raceLost, lastCommit, probeCount, firstProbe, committed,
                   lastReturned, prior>>

\* Mutant of WriteReread: the file is not read again; the mapping of the
\* read transaction is used.
WriteRereadStale(p) ==
    /\ pc[p] = "reread"
    /\ LET got == _get_entry(data[p], key[p])
       IN  /\ data' = [data EXCEPT ![p] = got._data]
           /\ IF got.entry = PyNone
              THEN /\ pc' = [pc EXCEPT ![p] = "compute"]
                   /\ UNCHANGED result
              ELSE /\ pc' = [pc EXCEPT ![p] = "write"]
                   /\ result' = [result EXCEPT ![p] = got.entry]
    /\ UNCHANGED <<envVars, keyVars, restVars, initEntry>>
    /\ UNCHANGED <<store, readers, writer, comp, key, calls, didProbe,
                   raceLost, lastCommit, probeCount, firstProbe, committed,
                   lastReturned, prior>>

\* Under the exclusive lock: read the file again and look the key up again.
WriteReread(p) ==
    /\ pc[p] = "reread"
    /\ LET got == _get_entry(LoadData(store), key[p])
       IN  /\ data' = [data EXCEPT ![p] = got._data]
           /\ IF got.raised
              THEN \* the exception ends the transaction: nothing is written
                   /\ pc' = [pc EXCEPT ![p] = "raised"]
                   /\ writer' = 0
                   /\ UNCHANGED result
              ELSE IF got.entry = PyNone
              THEN /\ pc' = [pc EXCEPT ![p] = "compute"]
                   /\ UNCHANGED <<result, writer>>
              ELSE /\ pc' = [pc EXCEPT ![p] = "write"]
                   /\ result' = [result EXCEPT ![p] = got.entry]
                   /\ UNCHANGED writer
    /\ UNCHANGED <<envVars, keyVars, restVars, initEntry>>
    /\ UNCHANGED <<store, readers, comp, key, calls, didProbe,
                   raceLost, lastCommit, probeCount, firstProbe, committed,
                   lastReturned, prior>>

\* Still absent: self._data[key] = self.value(compiler).
Probe(p) ==
    /\ pc[p] = "compute"
    /\ \E v \in value(comp[p]) :
          /\ data' = [data EXCEPT ![p] = DictSet(@, key[p], v)]
          /\ result' = [result EXCEPT ![p] = from_dict(v)]
          /\ firstProbe' = [firstProbe EXCEPT ![key[p]] =
                               IF probeCount[key[p]] = 0 THEN v ELSE @]
    /\ probeCount' = [probeCount EXCEPT ![key[p]] = @ + 1]
    /\ didProbe' = [didProbe EXCEPT ![p] = TRUE]
    /\ pc' = [pc EXCEPT ![p] = "write"]
    /\ UNCHANGED <<envVars, keyVars, restVars, initEntry>>
    /\ UNCHANGED <<store, readers, writer, comp, key, calls, raceLost,
                   lastCommit, committed, lastReturned, prior>>

\* new.write(json.dumps(self._data)) begins: the file is partly written.
WriteBack(p) ==
    /\ pc[p] = "write"
    /\ store' = FileTorn
    /\ pc' = [pc EXCEPT ![p] = "written"]
    /\ UNCHANGED <<envVars, keyVars, restVars, initEntry>>
    /\ UNCHANGED <<readers, writer, comp, key, data, result, calls, didProbe,
                   raceLost, lastCommit, probeCount, firstProbe, committed,
                   lastReturned, prior>>

\* The write completes, the transaction ends and get returns the entry.
WriteExit(p) ==
    /\ pc[p] = "written"
    /\ store' = JsonDumps(data[p])
    /\ writer' = 0
    /\ pc' = [pc EXCEPT ![p] = "done"]
    /\ lastCommit' = store'
    /\ committed' = [k \in PoolKeys |->
                        IF committed[k] = PyNone THEN StoredEntry(store', k)
                        ELSE committed[k]]
    /\ lastReturned' = [lastReturned EXCEPT ![key[p]] = result[p]]
    /\ UNCHANGED <<envVars, keyVars, restVars, initEntry>>
    /\ UNCHANGED <<readers, comp, key, data, result, calls, didProbe,
                   raceLost, probeCount, firstProbe, prior>>

NextCache ==
    \/ \E p \in Procs, c \in CachePool : ReadAcquire(p, c)
    \/ \E p \in Procs : ReadExit(p)
    \/ \E p \in Procs : WriteAcquire(p)
    \/ \E p \in Procs : WriteReread(p)
    \/ \E p \in Procs : Probe(p)
    \/ \E p \in Procs : WriteBack(p)
    \/ \E p \in Procs : WriteExit(p)

(***************************************************************************)
(* Compiler.compiler_environment.  os.environ maps each name to its value, *)
(* or to Unset.                                                            *)
(***************************************************************************)
EnvThreads == {1, 2}
EnvNames == {"A", "B", "M"}
Unset == "<unset>"

\* os.environ.copy()
os_environ_copy(env) == env
\* os.environ.clear()
os_environ_clear(env) == [n \in EnvNames |-> Unset]
\* os.environ.update(other)
os_environ_update(env, other) ==
    [n \in EnvNames |-> IF other[n] # Unset THEN other[n] ELSE env[n]]

\* spack.util.module_cmd.load_module: the module's effect on os.environ.
load_module(env, module) == [env EXCEPT !["M"] = module.s]

\* spack.schema.environment.parse(...).apply_modifications(): every name of
\* the "set" mapping is set to its value.
apply_modifications(env, environment) ==
    IF ~DictHas(environment, "set") THEN env
    ELSE LET set == DictGet(environment, "set")
         IN  [n \in EnvNames |->
                 IF DictHas(set, n) THEN DictGet(set, n).s ELSE env[n]]

\* What the operation run inside the scope may do to os.environ.
Operations ==
    {[name |-> n, to |-> v] : n \in {"A", "M"}, v \in {Unset, "op"}}
    \cup {[name |-> "none", to |-> Unset]}
RunOperation(env, op) ==
    IF op.name = "none" THEN env ELSE [env EXCEPT ![op.name] = op.to]

\* The toolchains whose scope is run, and the environments it starts from.
EnvCompilers ==
    {c \in Compilers :
        /\ c.cc = PyStr("/usr/bin/gcc")
        /\ c.alias = PyNone
        /\ c.enable_implicit_rpaths = PyNone}
InitEnvirons == [EnvNames -> {Unset, "0"}]

\* not self.modules and not self.environment
FastPath(c) == ~Truthy(c.modules) /\ ~Truthy(c.environment)

\* Mutant of EnterScope: os.environ is copied whatever the Compiler declares.
EnterScopeAlwaysCopies(t) ==
    /\ epc[t] \in {"out", "exited"}
    /\ scopes < MaxScopes
    /\ scopes' = scopes + 1
    /\ envBefore' = [envBefore EXCEPT ![t] = environ]
    /\ failed' = [failed EXCEPT ![t] = FALSE]
    /\ loaded' = [loaded EXCEPT ![t] = 0]
    /\ epc' = [epc EXCEPT ![t] = "load"]
    /\ backup_env' = [backup_env EXCEPT ![t] = os_environ_copy(environ)]
    /\ envOuter' = IF \A u \in EnvThreads : epc[u] \in {"out", "exited"}
                   THEN environ ELSE envOuter
    /\ UNCHANGED <<environ, self, envInside, envAfterOp, envSeen, lastExit>>
    /\ UNCHANGED <<cacheVars, keyVars, restVars>>

\* The scope is entered: the fast path yields at once, the other path
\* copies os.environ first.
EnterScope(t) ==
    /\ epc[t] \in {"out", "exited"}
    /\ scopes < MaxScopes
    /\ scopes' = scopes + 1
    /\ envBefore' = [envBefore EXCEPT ![t] = environ]
    /\ failed' = [failed EXCEPT ![t] = FALSE]
    /\ loaded' = [loaded EXCEPT ![t] = 0]
    /\ IF FastPath(self)
       THEN /\ epc' = [epc EXCEPT ![t] = "fast_body"]
            /\ envInside' = [envInside EXCEPT ![t] = environ]
            /\ UNCHANGED backup_env
       ELSE /\ epc' = [epc EXCEPT ![t] = "load"]
            /\ backup_env' = [backup_env EXCEPT ![t] = os_environ_copy(environ)]
            /\ UNCHANGED envInside
    /\ UNCHANGED <<environ, self, envAfterOp>>
    /\ envOuter' = IF \A u \in EnvThreads : epc[u] \in {"out", "exited"}
                   THEN environ ELSE envOuter
    /\ UNCHANGED <<envSeen, lastExit>>
    /\ UNCHANGED <<cacheVars, keyVars, restVars>>

\* Mutant of LoadModule: the modules are loaded last to first.
LoadModuleLastFirst(t) ==
    /\ epc[t] = "load"
    /\ loaded[t] < Len(self.modules.elems)
    /\ environ' = load_module(environ,
                      self.modules.elems[Len(self.modules.elems) - loaded[t]])
    /\ loaded' = [loaded EXCEPT ![t] = @ + 1]
    /\ UNCHANGED <<self, epc, backup_env, failed, scopes, envBefore,
                   envInside, envAfterOp>>
    /\ UNCHANGED envGhosts
    /\ UNCHANGED <<cacheVars, keyVars, restVars>>

\* for module in self.modules: load_module(module), one module per step.
LoadModule(t) ==
    /\ epc[t] = "load"
    /\ loaded[t] < Len(self.modules.elems)
    /\ environ' = load_module(environ, self.modules.elems[loaded[t] + 1])
    /\ loaded' = [loaded EXCEPT ![t] = @ + 1]
    /\ UNCHANGED <<self, epc, backup_env, failed, scopes, envBefore,
                   envInside, envAfterOp>>
    /\ UNCHANGED envGhosts
    /\ UNCHANGED <<cacheVars, keyVars, restVars>>

\* Mutant of LoadModuleFails: the exception leaves the scope at once, past
\* the finally clause.
LoadModuleFailsUnrestored(t) ==
    /\ epc[t] = "load"
    /\ loaded[t] < Len(self.modules.elems)
    /\ failed' = [failed EXCEPT ![t] = TRUE]
    /\ epc' = [epc EXCEPT ![t] = "exited"]
    /\ UNCHANGED <<environ, self, backup_env, loaded, scopes, envBefore,
                   envInside, envAfterOp>>
    /\ lastExit' = t
    /\ UNCHANGED <<envSeen, envOuter>>
    /\ UNCHANGED <<cacheVars, keyVars, restVars>>

\* load_module raises: the finally clause is next.
LoadModuleFails(t) ==
    /\ epc[t] = "load"
    /\ loaded[t] < Len(self.modules.elems)
    /\ failed' = [failed EXCEPT ![t] = TRUE]
    /\ epc' = [epc EXCEPT ![t] = "finally"]
    /\ UNCHANGED <<environ, self, backup_env, loaded, scopes, envBefore,
                   envInside, envAfterOp>>
    /\ UNCHANGED envGhosts
    /\ UNCHANGED <<cacheVars, keyVars, restVars>>

\* All modules are loaded: the environment modifications are applied, and
\* the scope yields to the operation.
ApplyModifications(t) ==
    /\ epc[t] = "load"
    /\ loaded[t] = Len(self.modules.elems)
    /\ environ' = apply_modifications(environ, self.environment)
    /\ envInside' = [envInside EXCEPT ![t] = environ']
    /\ epc' = [epc EXCEPT ![t] = "body"]
    /\ UNCHANGED <<self, backup_env, loaded, failed, scopes, envBefore,
                   envAfterOp>>
    /\ UNCHANGED envGhosts
    /\ UNCHANGED <<cacheVars, keyVars, restVars>>

\* parse(self.environment).apply_modifications() raises, with none or all
\* of the modifications made: the finally clause is next.
ApplyModificationsFails(t) ==
    /\ epc[t] = "load"
    /\ loaded[t] = Len(self.modules.elems)
    /\ environ' \in {environ, apply_modifications(environ, self.environment)}
    /\ failed' = [failed EXCEPT ![t] = TRUE]
    /\ epc' = [epc EXCEPT ![t] = "finally"]
    /\ UNCHANGED <<self, backup_env, loaded, scopes, envBefore, envInside,
                   envAfterOp>>
    /\ UNCHANGED envGhosts
    /\ UNCHANGED <<cacheVars, keyVars, restVars>>

\* The operation inside the scope runs, changes os.environ as it likes,
\* and returns or raises.  On the fast path the scope is then left at once.
Operation(t) ==
    /\ epc[t] \in {"body", "fast_body"}
    /\ \E op \in Operations, raises \in BOOLEAN :
          /\ environ' = RunOperation(environ, op)
          /\ failed' = [failed EXCEPT ![t] = raises]
    /\ envAfterOp' = [envAfterOp EXCEPT ![t] = environ']
    /\ epc' = [epc EXCEPT ![t] = IF epc[t] = "body" THEN "finally"
                                 ELSE "exited"]
    /\ UNCHANGED <<self, backup_env, loaded, scopes, envBefore, envInside>>
    /\ envSeen' = [envSeen EXCEPT ![t] = environ]
    /\ lastExit' = IF epc[t] = "body" THEN lastExit ELSE t
    /\ UNCHANGED envOuter
    /\ UNCHANGED <<cacheVars, keyVars, restVars>>

\* Mutant of Restore: os.environ is updated from the copy, not cleared.
RestoreWithoutClear(t) ==
    /\ epc[t] = "finally"
    /\ environ' = os_environ_update(environ, backup_env[t])
    /\ epc' = [epc EXCEPT ![t] = "exited"]
    /\ UNCHANGED <<self, backup_env, loaded, failed, scopes, envBefore,
                   envInside, envAfterOp>>
    /\ lastExit' = t
    /\ UNCHANGED <<envSeen, envOuter>>
    /\ UNCHANGED <<cacheVars, keyVars, restVars>>

\* finally: os.environ.clear(); os.environ.update(backup_env)
Restore(t) ==
    /\ epc[t] = "finally"
    /\ environ' = os_environ_update(os_environ_clear(environ), backup_env[t])
    /\ epc' = [epc EXCEPT ![t] = "exited"]
    /\ UNCHANGED <<self, backup_env, loaded, failed, scopes, envBefore,
                   envInside, envAfterOp>>
    /\ lastExit' = t
    /\ UNCHANGED <<envSeen, envOuter>>
    /\ UNCHANGED <<cacheVars, keyVars, restVars>>

(***************************************************************************)
(* FileCompilerCache.get run from start to end with no other process in    *)
(* between: the file and the entry it leaves, and whether it probed.       *)
(***************************************************************************)
get_sequential(file, compiler, v) ==
    LET k == _key(compiler)
        hit == _get_entry(LoadData(file), k)
        again == _get_entry(LoadData(file), k)
    IN  IF hit.entry # PyNone
        THEN [file |-> file, entry |-> hit.entry, probed |-> FALSE]
        ELSE IF again.entry # PyNone
        THEN [file |-> JsonDumps(again._data), entry |-> again.entry,
              probed |-> FALSE]
        ELSE [file |-> JsonDumps(DictSet(again._data, k, v)),
              entry |-> from_dict(v), probed |-> TRUE]

KeyNames == {"a", "b"}
KeyCompiler(x) == IF x = "a" THEN ka ELSE kb

\* get(ka) or get(kb), the next call of the sequence.
KeyGet(x) ==
    /\ kcalls < MaxKeyCalls
    /\ kcalls' = kcalls + 1
    /\ \E v \in value(KeyCompiler(x)) :
          LET got == get_sequential(kstore, KeyCompiler(x), v)
          IN  /\ kstore' = got.file
              /\ kres' = [kres EXCEPT ![x] = got.entry]
              /\ kprobes' = [kprobes EXCEPT ![x] =
                                IF got.probed THEN @ + 1 ELSE @]
              /\ kvalue' = [kvalue EXCEPT ![x] = IF got.probed THEN v ELSE @]
    /\ UNCHANGED <<ka, kb>>
    /\ UNCHANGED <<cacheVars, envVars, restVars>>

(***************************************************************************)
(* Text.  A str is a TLA+ string; its characters are read with SubSeq.     *)
(***************************************************************************)
CharAt(s, i) == SubSeq(s, i, i)
IsSpace(c) == c \in {" ", "\t", "\n"}
startswith(s, prefix) ==
    Len(s) >= Len(prefix) /\ SubSeq(s, 1, Len(prefix)) = prefix

\* All strings over an alphabet, up to a length.
RECURSIVE StringsUpTo(_, _)
StringsUpTo(alphabet, n) ==
    IF n = 0 THEN {""}
    ELSE LET shorter == StringsUpTo(alphabet, n - 1)
         IN  shorter \cup {s \o c : s \in shorter, c \in alphabet}

\* str.split(): the maximal runs of characters that are not whitespace.
RECURSIVE SplitFrom(_, _, _, _)
SplitFrom(s, i, word, words) ==
    IF i > Len(s)
    THEN IF word = "" THEN words ELSE Append(words, word)
    ELSE IF IsSpace(CharAt(s, i))
    THEN SplitFrom(s, i + 1, "",
                   IF word = "" THEN words ELSE Append(words, word))
    ELSE SplitFrom(s, i + 1, word \o CharAt(s, i), words)
split(s) == SplitFrom(s, 1, "", <<>>)

(***************************************************************************)
(* tokenize_flags.                                                         *)
(***************************************************************************)
\* Mutant of tokenize_flags: every word is a token of its own.
tokenize_flags_ungrouped(flags_values_, propagate_) ==
    LET tokens == split(flags_values_)
    IN  [i \in 1 .. Len(tokens) |-> <<tokens[i], propagate_>>]

\* Mutant of tokenize_flags: a word without a leading "-" that follows
\* another word is left out.
tokenize_flags_values_lost(flags_values_, propagate_) ==
    LET tokens == split(flags_values_)
        kept == {i \in 1 .. Len(tokens) : i = 1 \/ startswith(tokens[i], "-")}
        nth(k) == CHOOSE i \in kept : Cardinality({j \in kept : j < i}) = k - 1
    IN  [k \in 1 .. Cardinality(kept) |-> <<tokens[nth(k)], propagate_>>]

\* The loop over tokens[1:], from token i on.
RECURSIVE TokenizeLoop(_, _, _, _, _)
TokenizeLoop(tokens, i, flag, out, propagate_) ==
    IF i > Len(tokens) THEN Append(out, <<flag, propagate_>>)
    ELSE IF ~startswith(tokens[i], "-")
    THEN TokenizeLoop(tokens, i + 1, flag \o " " \o tokens[i], out, propagate_)
    ELSE TokenizeLoop(tokens, i + 1, tokens[i],
                      Append(out, <<flag, propagate_>>), propagate_)

tokenize_flags(flags_values_, propagate_) ==
    LET tokens == split(flags_values_)
    IN  IF tokens = <<>> THEN <<>>
        ELSE TokenizeLoop(tokens, 2, tokens[1], <<>>, propagate_)

FlagAlphabet == {" ", "-", "a"}
FlagStrings == StringsUpTo(FlagAlphabet, MaxFlagLen)

TokenizeFlags ==
    /\ ~tokenized
    /\ flags_with_propagation' = tokenize_flags(flags_values, propagate)
    /\ tokenized' = TRUE
    /\ UNCHANGED <<flags_values, propagate>>
    /\ UNCHANGED <<cacheVars, envVars, keyVars, linkVars, lateVars>>

(***************************************************************************)
(* os.path, as _parse_link_paths uses it (POSIX).                          *)
(***************************************************************************)
\* str.split(sep): the pieces between the separators, empty ones included.
RECURSIVE SplitOnFrom(_, _, _, _, _)
SplitOnFrom(s, sep, i, piece, pieces) ==
    IF i > Len(s) THEN Append(pieces, piece)
    ELSE IF CharAt(s, i) = sep
    THEN SplitOnFrom(s, sep, i + 1, "", Append(pieces, piece))
    ELSE SplitOnFrom(s, sep, i + 1, piece \o CharAt(s, i), pieces)
SplitOn(s, sep) == SplitOnFrom(s, sep, 1, "", <<>>)

RECURSIVE JoinWith(_, _)
JoinWith(pieces, sep) ==
    IF pieces = <<>> THEN ""
    ELSE IF Len(pieces) = 1 THEN pieces[1]
    ELSE pieces[1] \o sep \o JoinWith(Tail(pieces), sep)

\* The loop of os.path.normpath over the components of the path.
RECURSIVE NormComps(_, _, _, _)
NormComps(comps, i, rooted, new_comps) ==
    IF i > Len(comps) THEN new_comps
    ELSE IF comps[i] \in {"", "."}
    THEN NormComps(comps, i + 1, rooted, new_comps)
    ELSE IF \/ comps[i] # ".."
            \/ (~rooted /\ new_comps = <<>>)
            \/ (new_comps # <<>> /\ new_comps[Len(new_comps)] = "..")
    THEN NormComps(comps, i + 1, rooted, Append(new_comps, comps[i]))
    ELSE IF new_comps # <<>>
    THEN NormComps(comps, i + 1, rooted,
                   SubSeq(new_comps, 1, Len(new_comps) - 1))
    ELSE NormComps(comps, i + 1, rooted, new_comps)

normpath(path) ==
    IF path = "" THEN "."
    ELSE LET rooted == startswith(path, "/")
             slashes == IF rooted /\ startswith(path, "//")
                           /\ ~startswith(path, "///")
                        THEN "//" ELSE IF rooted THEN "/" ELSE ""
             joined == slashes \o
                       JoinWith(NormComps(SplitOn(path, "/"), 1, rooted, <<>>),
                                "/")
         IN  IF joined = "" THEN "." ELSE joined

\* os.getcwd()
getcwd == "/work"
isabs(path) == startswith(path, "/")
abspath(path) ==
    IF isabs(path) THEN normpath(path)
    ELSE normpath(getcwd \o "/" \o path)

(***************************************************************************)
(* _parse_link_paths.                                                      *)
(***************************************************************************)
IsSlash(c) == c \in {"/", "\\"}
NoSlash(s) == \A i \in 1 .. Len(s) : ~IsSlash(CharAt(s, i))
AllBlank(s) == \A i \in 1 .. Len(s) : CharAt(s, i) = " "
HasAt(s, i, part) ==
    i + Len(part) - 1 <= Len(s) /\ SubSeq(s, i, i + Len(part) - 1) = part

\* The positions at which one of link, ld, <name>-ld, collect2 that starts
\* at position i of the line ends.
KeywordEnds(line, i) ==
    {i + Len(k) - 1 : k \in {k \in {"link", "ld", "collect2"} : HasAt(line, i, k)}}
    \cup {m + 2 : m \in {m \in i + 1 .. Len(line) :
                           /\ HasAt(line, m, "-ld")
                           /\ NoSlash(SubSeq(line, i, m - 1))}}

\* _LINKER_LINE.match(line):
\*   ^( *|.*[/\\])(link|ld|([^/\\]+-)?ld|collect2)[^/\\]*( |$)
_LINKER_LINE(line) ==
    \E i \in 1 .. Len(line) :
        /\ AllBlank(SubSeq(line, 1, i - 1))
              \/ (i > 1 /\ IsSlash(CharAt(line, i - 1)))
        /\ \E j \in KeywordEnds(line, i) :
              \E k \in j .. Len(line) :
                  /\ NoSlash(SubSeq(line, j + 1, k))
                  /\ k = Len(line) \/ CharAt(line, k + 1) = " "

NameChars ==
    {"A", "B", "C", "D", "E", "F", "G", "H", "I", "J", "K", "L", "M",
     "N", "O", "P", "Q", "R", "S", "T", "U", "V", "W", "X", "Y", "Z",
     "a", "b", "c", "d", "e", "f", "g", "h", "i", "j", "k", "l", "m",
     "n", "o", "p", "q", "r", "s", "t", "u", "v", "w", "x", "y", "z",
     "0", "1", "2", "3", "4", "5", "6", "7", "8", "9", "_"}

\* A line starts with ^[A-Za-z0-9_]+=
StartsWithAssignment(line) ==
    \E n \in 1 .. Len(line) - 1 :
        /\ \A i \in 1 .. n : CharAt(line, i) \in NameChars
        /\ CharAt(line, n + 1) = "="

\* re.search of (collect2 version|^[A-Za-z0-9_]+=|/ldfe ) in the line.
_LINKER_LINE_IGNORE_search(line) ==
    \/ \E i \in 1 .. Len(line) : HasAt(line, i, "collect2 version")
    \/ StartsWithAssignment(line)
    \/ \E i \in 1 .. Len(line) : HasAt(line, i, "/ldfe ")

\* _LINKER_LINE_IGNORE.match(line): the pattern is looked for at the start
\* of the line only.
_LINKER_LINE_IGNORE(line) ==
    \/ startswith(line, "collect2 version")
    \/ StartsWithAssignment(line)
    \/ startswith(line, "/ldfe ")

\* _LINK_DIR_ARG.match(arg): ^-L(.:)?(?P<dir>[/\\].*); the dirs it gives.
_LINK_DIR_ARG(arg) ==
    IF ~startswith(arg, "-L") THEN <<>>
    ELSE IF Len(arg) >= 5 /\ CharAt(arg, 4) = ":" /\ IsSlash(CharAt(arg, 5))
    THEN <<SubSeq(arg, 5, Len(arg))>>
    ELSE IF Len(arg) >= 3 /\ IsSlash(CharAt(arg, 3))
    THEN <<SubSeq(arg, 3, Len(arg))>>
    ELSE <<>>

\* _LIBPATH_ARG.match(arg): ^[-/](LIBPATH|libpath):(?P<dir>.*)
_LIBPATH_ARG(arg) ==
    IF /\ Len(arg) >= 9
       /\ CharAt(arg, 1) \in {"-", "/"}
       /\ SubSeq(arg, 2, 9) \in {"LIBPATH:", "libpath:"}
    THEN <<SubSeq(arg, 10, Len(arg))>>
    ELSE <<>>

\* for arg in line.split(): the dirs the arguments of a linker line give.
RECURSIVE ArgLoop(_, _, _, _)
ArgLoop(args, i, next_arg, dirs) ==
    IF i > Len(args) THEN dirs
    ELSE IF args[i] \in {"-L", "-Y"} THEN ArgLoop(args, i + 1, TRUE, dirs)
    ELSE IF next_arg THEN ArgLoop(args, i + 1, FALSE, Append(dirs, args[i]))
    ELSE ArgLoop(args, i + 1, FALSE,
                 dirs \o _LINK_DIR_ARG(args[i]) \o _LIBPATH_ARG(args[i]))

\* str.splitlines(), for lines that end in "\n".
splitlines(s) ==
    LET pieces == SplitOn(s, "\n")
    IN  IF pieces[Len(pieces)] = "" THEN SubSeq(pieces, 1, Len(pieces) - 1)
        ELSE pieces

\* Mutant of LinkerLineDirs: a line is dropped when the ignore pattern is
\* found anywhere in it.
LinkerLineDirsIgnoreSearch(line) ==
    IF ~_LINKER_LINE(line) THEN <<>>
    ELSE IF _LINKER_LINE_IGNORE_search(line) THEN <<>>
    ELSE ArgLoop(split(line), 1, FALSE, <<>>)

\* What the arguments of one line add to raw_link_dirs.
LinkerLineDirs(line) ==
    IF ~_LINKER_LINE(line) THEN <<>>
    ELSE IF _LINKER_LINE_IGNORE(line) THEN <<>>
    ELSE ArgLoop(split(line), 1, FALSE, <<>>)

\* for line in string.splitlines(): lib_search_paths after each line.
RECURSIVE BlockLoop(_, _, _, _)
BlockLoop(lines, i, lib_search_paths, after) ==
    IF i > Len(lines) THEN after
    ELSE LET now == IF lib_search_paths THEN startswith(lines[i], "\t")
                    ELSE startswith(lines[i], "Library search paths:")
         IN  BlockLoop(lines, i + 1, now, Append(after, now))

\* Mutant of LineLoop: a line captured in the block goes on to the
\* linker-line test.
LineLoopScansCaptured(lines, i, lib_search_paths, added) ==
    CHOOSE all \in
        {[k \in 1 .. Len(lines) |->
             IF k > 1 /\ after[k - 1] /\ startswith(lines[k], "\t")
             THEN <<SubSeq(lines[k], 2, Len(lines[k]))>>
                      \o LinkerLineDirs(lines[k])
             ELSE LinkerLineDirs(lines[k])] :
         after \in {BlockLoop(lines, 1, FALSE, <<>>)}} : TRUE

\* for line in string.splitlines(): what each line adds to raw_link_dirs.
RECURSIVE LineLoop(_, _, _, _)
LineLoop(lines, i, lib_search_paths, added) ==
    IF i > Len(lines) THEN added
    ELSE IF lib_search_paths /\ startswith(lines[i], "\t")
    THEN LineLoop(lines, i + 1, TRUE,
                  Append(added, <<SubSeq(lines[i], 2, Len(lines[i]))>>))
    ELSE LineLoop(lines, i + 1,
                  ~lib_search_paths
                      /\ startswith(lines[i], "Library search paths:"),
                  Append(added, LinkerLineDirs(lines[i])))

RECURSIVE Flatten(_)
Flatten(seqs) ==
    IF seqs = <<>> THEN <<>> ELSE Head(seqs) \o Flatten(Tail(seqs))

\* Mutant of DedupLoop: visited is never added to.
DedupLoopNothingVisited(raw, i, implicit_link_dirs_, visited) ==
    [k \in 1 .. Len(raw) |-> abspath(raw[k])]

\* for link_dir in raw_link_dirs: normalise, keep what was not seen before.
RECURSIVE DedupLoop(_, _, _, _)
DedupLoop(raw, i, implicit_link_dirs_, visited) ==
    IF i > Len(raw) THEN implicit_link_dirs_
    ELSE LET normalized_path == abspath(raw[i])
         IN  IF normalized_path \notin visited
             THEN DedupLoop(raw, i + 1,
                            Append(implicit_link_dirs_, normalized_path),
                            visited \cup {normalized_path})
             ELSE DedupLoop(raw, i + 1, implicit_link_dirs_, visited)

_parse_link_paths(text) ==
    DedupLoop(Flatten(LineLoop(splitlines(text), 1, FALSE, <<>>)), 1, <<>>, {})

(***************************************************************************)
(* _parse_non_system_link_dirs.                                            *)
(***************************************************************************)
\* os.path.isdir: the directories that exist.
ExistingDirs ==
    {"/opt/lib", "/opt/lib2", "/opt/x", "/usr/lib", "/usr/lib/foo",
     "/work/rel"}
isdir(d) == d \in ExistingDirs

\* spack.util.environment.filter_system_paths: the paths that are none of
\* the system directories, in their order.
SystemDirs ==
    {"/", "/usr", "/usr/local",
     "/lib", "/lib64", "/usr/lib", "/usr/lib64",
     "/usr/local/lib", "/usr/local/lib64"}
filter_system_paths(paths) == SelectSeq(paths, LAMBDA d : d \notin SystemDirs)

\* llnl.util.filesystem.path_contains_subdirectory(path, root): the path is
\* a directory below the root.
path_contains_subdirectory(path, root) ==
    Len(path) > Len(root) /\ startswith(path, root)

\* Mutant of in_system_subdirectory: /usr/lib/ is missing from the roots.
in_system_subdirectory_without_usr_lib(path) ==
    \E x \in {"/lib/", "/lib64/", "/usr/lib64/", "/usr/local/lib/",
              "/usr/local/lib64/"} : path_contains_subdirectory(path, x)

system_dirs ==
    {"/lib/", "/lib64/", "/usr/lib/", "/usr/lib64/", "/usr/local/lib/",
     "/usr/local/lib64/"}
in_system_subdirectory(path) ==
    \E x \in system_dirs : path_contains_subdirectory(path, x)

_parse_non_system_link_dirs(text) ==
    LET all_dirs == _parse_link_paths(text)
        existing == SelectSeq(all_dirs, isdir)
        filtered == filter_system_paths(existing)
    IN  SelectSeq(filtered, LAMBDA p : ~in_system_subdirectory(p))

\* The lines a compiler's verbose output is made of.
LinePool ==
    {"ld -L/opt/lib -L /opt/lib2",
     "ld -L/opt/lib2/ -L/opt/lib",
     "ld -L/usr/lib -L/usr/lib/foo -L/no",
     "ld -LIBPATH:rel -L/opt/../opt//x",
     "ld -L//opt/lib -L/opt/lib",
     "collect2 version 9 -L/opt/x",
     "/bin/collect2 version 9 -L/opt/x",
     "A=/ld -L/opt/x",
     "/opt/ldfe -L/opt/x",
     "gcc -L/opt/x",
     "Library search paths:",
     "\t/usr/lib/foo",
     "\t/opt/lib",
     "\t/bin/ld -L/opt/y",
     "ld -L -Y /opt/z -L"}

\* The outputs of up to n lines, each ended by a newline.
RECURSIVE TextsUpTo(_)
TextsUpTo(n) ==
    IF n = 0 THEN {""}
    ELSE LET shorter == TextsUpTo(n - 1)
         IN  shorter \cup {t \o l \o "\n" : t \in shorter, l \in LinePool}
Texts == TextsUpTo(MaxLines)

\* _parse_link_paths(string) is called.
ParseLinkPaths ==
    /\ lpc = "start"
    /\ lpc' = "_parse_link_paths"
    /\ line_dirs' = LineLoop(splitlines(string), 1, FALSE, <<>>)
    /\ raw_link_dirs' = Flatten(line_dirs')
    /\ implicit_link_dirs' = _parse_link_paths(string)
    /\ UNCHANGED <<string, link_dirs>>
    /\ UNCHANGED <<cacheVars, envVars, keyVars, flagVars, lateVars>>

\* _parse_non_system_link_dirs(string) is called.
ParseNonSystemLinkDirs ==
    /\ lpc = "start"
    /\ lpc' = "_parse_non_system_link_dirs"
    /\ line_dirs' = LineLoop(splitlines(string), 1, FALSE, <<>>)
    /\ raw_link_dirs' = Flatten(line_dirs')
    /\ implicit_link_dirs' = _parse_link_paths(string)
    /\ link_dirs' = _parse_non_system_link_dirs(string)
    /\ UNCHANGED string
    /\ UNCHANGED <<cacheVars, envVars, keyVars, flagVars, lateVars>>

(***************************************************************************)
(* The methods of a Compiler: version, real_version, implicit_rpaths,      *)
(* verify_executables.  They are called on self, one after another, in a   *)
(* process whose environment is environ.                                   *)
(***************************************************************************)
\* The files executables are looked for among; noexec lacks the x bit.
Executables ==
    {"/usr/bin/gcc", "/usr/bin/g++", "/usr/bin/cc", "/opt/cray/bin/cc",
     "/opt/cray/bin/CC", "/opt/cray/bin/ftn"}
Files == Executables \cup {"/usr/bin/noexec"}
isfile(exe) == exe \in Files
access_X_OK(exe) == exe \in Executables

\* The directories of PATH: a loaded module puts its directory in front.
SearchPath(env) ==
    IF env["M"] # Unset THEN <<"/opt/cray/bin", "/usr/bin">>
    ELSE <<"/usr/bin">>

\* spack.util.executable.which_string(exe): the first executable of that
\* name on PATH, None when there is none.
which_string(exe, env) ==
    LET hits == SelectSeq(SearchPath(env),
                          LAMBDA d : (d \o "/" \o exe) \in Executables)
    IN  IF hits = <<>> THEN PyNone ELSE PyStr(hits[1] \o "/" \o exe)

accessible_exe(exe, env) ==
    LET found == IF ~isabs(exe) THEN which_string(exe, env) ELSE PyStr(exe)
    IN  IF ~Truthy(found) THEN FALSE
        ELSE isfile(found.s) /\ access_X_OK(found.s)

\* os.environ as the body of compiler_environment finds it.
RECURSIVE LoadModules(_, _, _)
LoadModules(env, modules, i) ==
    IF i > Len(modules) THEN env
    ELSE LoadModules(load_module(env, modules[i]), modules, i + 1)
ScopeEnviron(c, env) ==
    IF FastPath(c) THEN env
    ELSE apply_modifications(LoadModules(env, c.modules.elems, 1),
                             c.environment)
\* os.environ once compiler_environment is left.
ScopeExit(c, env, inside) ==
    IF FastPath(c) THEN inside
    ELSE os_environ_update(os_environ_clear(inside), os_environ_copy(env))

\* Mutant of missing_executables: the search stops at the first path that
\* is not accessible.
first_missing_executable(c, env) ==
    LET all == SelectSeq(<<c.cc, c.cxx, c.f77, c.fc>>,
                         LAMBDA cmp : Truthy(cmp) /\ ~accessible_exe(cmp.s, env))
    IN  IF all = <<>> THEN <<>> ELSE <<all[1]>>

\* missing = [cmp for cmp in (cc, cxx, f77, fc) if cmp and not accessible]
missing_executables(c, env) ==
    SelectSeq(<<c.cc, c.cxx, c.f77, c.fc>>,
              LAMBDA cmp : Truthy(cmp) /\ ~accessible_exe(cmp.s, env))

CompilerAccessError(compiler, paths) ==
    [type |-> "CompilerAccessError", compiler |-> compiler, paths |-> paths]
\* What load_module raises when the module cannot be loaded.
ModuleError == [type |-> "ModuleError"]

\* verify_executables with the modules loading (loads) or not: the
\* exception that leaves it and os.environ afterwards.
verify_executables(c, env, loads) ==
    LET inside == ScopeEnviron(c, env)
        missing == missing_executables(c, inside)
    IN  [raised |-> IF ~loads /\ Truthy(c.modules) THEN ModuleError
                    ELSE IF missing # <<>>
                    THEN CompilerAccessError(c, missing)
                    ELSE NoError,
         environ |-> ScopeExit(c, env, inside)]

\* self.spec.version, and spack.version.StandardVersion.from_string.
StandardVersion_from_string(s) == [version |-> s]
version(c) == StandardVersion_from_string(SplitOn(c.spec, "@")[2])

\* Mutant of real_version: "unknown" is parsed like a version.
real_version_parses_unknown(c, entry) ==
    IF ~Truthy(entry.real_version) THEN version(c)
    ELSE StandardVersion_from_string(entry.real_version.s)

\* real_version, given the entry self.cache.get(self) returned.
real_version(c, entry) ==
    LET real_version_str == entry.real_version
    IN  IF ~Truthy(real_version_str) \/ real_version_str = PyStr("unknown")
        THEN version(c)
        ELSE StandardVersion_from_string(real_version_str.s)

\* The transactions one FileCompilerCache.get starts: the read, and the
\* write when the read found no entry.
CacheTransactions(file, c) ==
    IF _get_entry(LoadData(file), _key(c)).entry # PyNone THEN 1 ELSE 2
\* The runs of the compiler in one value(): one by each probe.
ProbeInvocations == 2

\* self.cache.get(self): the entry, the file afterwards, and how many
\* transactions and runs of the compiler it took.
cache_get(file, c, v) ==
    LET got == get_sequential(file, c, v)
    IN  [entry |-> got.entry, file |-> got.file,
         transactions |-> CacheTransactions(file, c),
         invocations |-> IF got.probed THEN ProbeInvocations ELSE 0]
NoCacheUse(file) ==
    [file |-> file, transactions |-> 0, invocations |-> 0]

\* llnl.util.filesystem.paths_containing_libs: the directories that hold
\* one of the libraries.
LibDirs == {"/opt/lib", "/opt/x"}
paths_containing_libs(paths) == SelectSeq(paths, LAMBDA d : d \in LibDirs)

\* implicit_rpaths from output = self.compiler_verbose_output on: the list
\* it returns, with the use of the cache that reading the output made.
implicit_rpaths_from(got) ==
    LET output == got.entry.c_compiler_output
    IN  [returned |-> IF ~Truthy(output) THEN <<>>
                      ELSE paths_containing_libs(
                               _parse_non_system_link_dirs(output.s)),
         use |-> [file |-> got.file, transactions |-> got.transactions,
                  invocations |-> got.invocations]]

\* Mutant of implicit_rpaths: enable_implicit_rpaths is not looked at.
implicit_rpaths_unconditional(c, file, v) ==
    CHOOSE r \in {implicit_rpaths_from(got) :
                     got \in {cache_get(file, c, v)}} : TRUE

\* implicit_rpaths: the list it returns and its use of the cache.
implicit_rpaths(c, file, v) ==
    IF c.enable_implicit_rpaths = PyBool(FALSE)
    THEN [returned |-> <<>>, use |-> NoCacheUse(file)]
    ELSE CHOOSE r \in {implicit_rpaths_from(got) :
                          got \in {cache_get(file, c, v)}} : TRUE

\* The Compilers whose methods are called.
MethodPathLists ==
    {<<PyStr("/usr/bin/gcc"), PyStr("/usr/bin/g++")>>,
     <<PyStr("cc"), PyStr("CC"), PyStr("ftn")>>,
     <<PyStr("/usr/bin/gcc"), PyNone, PyStr("/nonexistent/gfortran"),
       PyStr("/usr/bin/noexec")>>,
     <<PyStr(""), PyStr("/usr/bin/g++")>>,
     <<PyStr("gcc"), PyStr("/nonexistent/g++")>>}
MethodCompilers ==
    {Compiler("gcc@9.3.0", "ubuntu20.04", "x86_64", p,
              PyList([i \in DOMAIN m |-> PyStr(m[i])]), PyNone, PyDict(<<>>),
              PyList(<<>>), r, DefaultFlags) :
        p \in MethodPathLists, m \in ModuleLists,
        r \in {PyNone, PyBool(FALSE), PyBool(TRUE)}}
MethodEnvirons == {[n \in EnvNames |-> Unset], [n \in EnvNames |-> "0"]}

\* The cache files the calls may find: none, an unreadable one, an empty
\* one, and one with an entry for the Compiler.
MethodEntries ==
    {<<PyNone, "unknown">>,
     <<PyStr(""), "">>,
     <<PyStr("ld -L/opt/lib -L /opt/lib2\n"), "9.3.0">>,
     <<PyStr("ld -L/usr/lib -L/opt/x\n"), "9.3.1">>,
     <<PyStr("gcc -L/opt/x\n"), "unknown">>}
MethodFiles(c) ==
    {FileMissing, JInvalid, JObject(<<>>)}
    \cup {JsonDumps(PyDict(<< <<_key(c),
                 PyDict(<< <<"c_compiler_output", e[1]>>,
                           <<"real_version", PyStr(e[2])>> >>)>> >>)) :
             e \in MethodEntries}

scopeVars == <<epc, backup_env, loaded, failed, scopes, envBefore, envInside,
               envAfterOp, envGhosts>>
OtherThanMethods == <<cacheVars, scopeVars, keyVars, flagVars, linkVars, memoVars>>

\* What every call records when it begins.
BeginCall(name) ==
    /\ mcalls < MaxMethodCalls
    /\ mcalls' = mcalls + 1
    /\ method' = name
    /\ pre' = [cache_file |-> cache_file, transactions |-> transactions,
               invocations |-> invocations]

\* self.version
Version ==
    /\ BeginCall("version")
    /\ returned' = version(self)
    /\ raised' = NoError
    /\ UNCHANGED <<self, environ, cache_file, transactions, invocations>>
    /\ UNCHANGED OtherThanMethods

\* self.real_version
RealVersion ==
    /\ BeginCall("real_version")
    /\ \E v \in value(self) :
          \E got \in {cache_get(cache_file, self, v)} :
              /\ returned' = real_version(self, got.entry)
              /\ cache_file' = got.file
              /\ transactions' = transactions + got.transactions
              /\ invocations' = invocations + got.invocations
    /\ raised' = NoError
    /\ UNCHANGED <<self, environ>>
    /\ UNCHANGED OtherThanMethods

\* self.implicit_rpaths()
ImplicitRpathsCall ==
    /\ BeginCall("implicit_rpaths")
    /\ \E v \in value(self) :
          \E got \in {implicit_rpaths(self, cache_file, v)} :
              /\ returned' = got.returned
              /\ cache_file' = got.use.file
              /\ transactions' = transactions + got.use.transactions
              /\ invocations' = invocations + got.use.invocations
    /\ raised' = NoError
    /\ UNCHANGED <<self, environ>>
    /\ UNCHANGED OtherThanMethods

\* self.verify_executables()
VerifyExecutables ==
    /\ BeginCall("verify_executables")
    /\ \E loads \in BOOLEAN :
          \E got \in {verify_executables(self, environ, loads)} :
              /\ raised' = got.raised
              /\ environ' = got.environ
    /\ returned' = PyNone
    /\ UNCHANGED <<self, cache_file, transactions, invocations>>
    /\ UNCHANGED OtherThanMethods

(***************************************************************************)
(* get_compiler_version_output, and the table llnl.util.lang.memoized      *)
(* keeps for _get_compiler_version_output: a set of [args, result].        *)
(***************************************************************************)
\* spack.util.executable.Executable(exe)(*args): the executable is run, a
\* name being looked up along PATH; what it prints, or ProcessError.
Executable(exe, args, env) ==
    LET found == IF isabs(exe) THEN PyStr(exe) ELSE which_string(exe, env)
    IN  IF ~Truthy(found) \/ ~access_X_OK(found.s)
        THEN [raised |-> TRUE, output |-> ""]
        ELSE [raised |-> FALSE,
              output |-> found.s \o (IF args = <<>> THEN ": no input files"
                                     ELSE " " \o args[1] \o ": 1.0")]

\* The body of _get_compiler_version_output.
_get_compiler_version_output(compiler_path, version_arg, env) ==
    IF version_arg # "" THEN Executable(compiler_path, <<version_arg>>, env)
    ELSE Executable(compiler_path, <<>>, env)

\* llnl.util.lang.memoized around it: a result recorded for the arguments
\* is returned; otherwise the body runs and its result is recorded, an
\* exception leaving the table as it is.
memoized(table, compiler_path, version_arg, env) ==
    LET args == <<compiler_path, version_arg>>
    IN  IF \E e \in table : e.args = args
        THEN [outcome |-> "returned",
              output |-> (CHOOSE e \in table : e.args = args).result,
              func_cache |-> table]
        ELSE CHOOSE r \in
               {IF ran.raised
                THEN [outcome |-> "ProcessError", output |-> "",
                      func_cache |-> table]
                ELSE [outcome |-> "returned", output |-> ran.output,
                      func_cache |->
                          table \cup {[args |-> args, result |-> ran.output]}] :
                ran \in {_get_compiler_version_output(compiler_path,
                                                      version_arg, env)}} : TRUE

\* Mutant of get_compiler_version_output: the name is passed on as given.
get_compiler_version_output_by_name(table, compiler_path, version_arg, env) ==
    memoized(table, compiler_path, version_arg, env)

\* get_compiler_version_output(compiler_path, version_arg): which_string
\* with required=True raises CommandNotFoundError for a name not on PATH.
get_compiler_version_output(table, compiler_path, version_arg, env) ==
    IF ~isabs(compiler_path)
    THEN IF which_string(compiler_path, env) = PyNone
         THEN [outcome |-> "CommandNotFoundError", output |-> "",
               func_cache |-> table]
         ELSE memoized(table, which_string(compiler_path, env).s,
                       version_arg, env)
    ELSE memoized(table, compiler_path, version_arg, env)

\* The arguments of the calls.
CompilerPaths ==
    {"cc", "ftn", "icc", "/usr/bin/cc", "/opt/cray/bin/cc", "/nonexistent/cc"}
VersionArgs == {"--version", ""}

OtherThanMemo == <<cacheVars, self, scopeVars, keyVars, flagVars, linkVars, methVars>>

\* PATH changes between two calls: a module is loaded or unloaded.
ChangePath ==
    /\ environ' \in MethodEnvirons \ {environ}
    /\ UNCHANGED <<func_cache, ocalls, last>>
    /\ UNCHANGED OtherThanMemo

GetCompilerVersionOutput(compiler_path, version_arg) ==
    /\ ocalls < MaxOutputCalls
    /\ ocalls' = ocalls + 1
    /\ \E got \in {get_compiler_version_output(func_cache, compiler_path,
                                               version_arg, environ)} :
          /\ func_cache' = got.func_cache
          /\ last' = [outcome |-> got.outcome, output |-> got.output,
                      compiler_path |-> compiler_path,
                      version_arg |-> version_arg, environ |-> environ,
                      func_cache |-> func_cache]
    /\ UNCHANGED environ
    /\ UNCHANGED OtherThanMemo

(***************************************************************************)
(* Compiler.__hash__.  hash() of a tuple is taken to be collision-free:    *)
(* the hash stands for the tuple it was computed from.                     *)
(***************************************************************************)
\* str() of a list or a dict: the items in the order the object holds them.
RECURSIVE repr(_)
repr(v) ==
    IF v.ty = "NoneType" THEN "None"
    ELSE IF v.ty = "bool" THEN (IF v.b THEN "True" ELSE "False")
    ELSE IF v.ty = "str" THEN "'" \o v.s \o "'"
    ELSE IF v.ty = "list"
    THEN "[" \o JoinWith([i \in DOMAIN v.elems |-> repr(v.elems[i])], ", ")
             \o "]"
    ELSE "{" \o JoinWith([i \in DOMAIN v.items |->
                             "'" \o v.items[i][1] \o "': "
                                 \o repr(v.items[i][2])], ", ")
             \o "}"

\* str(self.flags): the flags in the order __init__ added them.
FlagMap_str(f) ==
    JoinWith([i \in DOMAIN f.items |->
                 f.items[i][1] \o "=" \o JoinWith(f.items[i][2], " ")], " ")

__hash__(self_) ==
    [hash |-> <<self_.cc, self_.cxx, self_.fc, self_.f77, self_.spec,
                self_.operating_system, self_.target,
                FlagMap_str(self_.flags), repr(self_.modules),
                repr(self_.environment), repr(self_.extra_rpaths),
                self_.enable_implicit_rpaths>>]

(***************************************************************************)
(* The two probes of CompilerCache.value, each run inside the scope of     *)
(* compiler_environment.  How the invocation of the compiler goes (what it *)
(* prints, or ProcessError for a nonzero exit or a timeout) is an input.   *)
(***************************************************************************)
\* The class of a Compiler goes by the name of its spec.  The class Compiler
\* has the attributes of the source; the family Gcc overrides them.
class_of(c) == IF startswith(c.spec, "gcc@") THEN "Gcc" ELSE "Compiler"
version_argument(cls) == "-dumpversion"
verbose_flag(cls) == IF cls = "Gcc" THEN PyStr("-v") ELSE PyNone

\* re.search(cls.version_regex, output).group(1), None without a match.
\* The regex of Compiler is "(.*)": it matches at the start of any output, up
\* to the end of the first line.  The regex of Gcc is "([0-9.]+)": the first
\* run of digits and dots.
IsVersionChar(ch) ==
    ch \in {"0", "1", "2", "3", "4", "5", "6", "7", "8", "9", "."}
InRun(ch, of_version) ==
    IF of_version THEN IsVersionChar(ch) ELSE ch # "\n"
RECURSIVE RunEnd(_, _, _)
RunEnd(s, i, of_version) ==
    IF i <= Len(s) /\ InRun(CharAt(s, i), of_version)
    THEN RunEnd(s, i + 1, of_version)
    ELSE i
re_search_group1(cls, output) ==
    IF cls = "Compiler"
    THEN PyStr(SubSeq(output, 1, RunEnd(output, 1, FALSE) - 1))
    ELSE LET starts == {i \in 1..Len(output) :
                           IsVersionChar(CharAt(output, i))}
         IN  IF starts = {} THEN PyNone
             ELSE LET b == CHOOSE i \in starts : \A j \in starts : i <= j
                  IN  PyStr(SubSeq(output, b,
                                   RunEnd(output, b, TRUE) - 1))

\* Mutant of extract_version_from_output: without a match the whole output is
\* the version.
extract_version_or_output(cls, output) ==
    LET match == re_search_group1(cls, output)
    IN  IF match.ty = "str" THEN match.s ELSE output

extract_version_from_output(cls, output) ==
    LET match == re_search_group1(cls, output)
    IN  IF match.ty = "str" THEN match.s ELSE "unknown"

\* cc_exe(...) inside the scope: ProcessError when the executable is not
\* found or the invocation fails, else what the invocation prints.
Invoke(exe, env, ran) ==
    IF Executable(exe, <<>>, env).raised
    THEN [raised |-> TRUE, output |-> ""]
    ELSE ran

\* Mutant of ScopeExit: an exception in the body leaves the scope past the
\* restore.
ScopeExitUnlessRaised(c, env, inside, body_raised) ==
    IF body_raised THEN inside ELSE ScopeExit(c, env, inside)

\* os.environ once the with statement around an invocation is left.
ScopeExitAfter(c, env, inside, body_raised) == ScopeExit(c, env, inside)

\* Compiler.get_real_version in the environment env: what it returns, the
\* exception that leaves it, the environment the compiler ran in and
\* os.environ afterwards.
Compiler_get_real_version(c, env, ran) ==
    LET inside == ScopeEnviron(c, env)
        got == Invoke(c.cc.s, inside, ran)
    IN  [returned |-> IF got.raised THEN PyStr("unknown")
                      ELSE PyStr(extract_version_from_output(class_of(c),
                                                             got.output)),
         raised |-> NoError,
         invoked |-> TRUE,
         process_error |-> got.raised,
         inside |-> inside,
         environ |-> ScopeExitAfter(c, env, inside, got.raised)]

\* Compiler._compile_dummy_c_source in the environment env.
Compiler_compile_dummy_c_source(c, env, ran) ==
    LET cc == IF Truthy(c.cc) THEN c.cc ELSE c.cxx
    IN  IF ~Truthy(cc) \/ ~Truthy(verbose_flag(class_of(c)))
        THEN [returned |-> PyNone, raised |-> NoError, invoked |-> FALSE,
              process_error |-> FALSE, inside |-> env, environ |-> env]
        ELSE LET inside == ScopeEnviron(c, env)
                 got == Invoke(cc.s, inside, ran)
             IN  [returned |-> IF got.raised THEN PyNone
                               ELSE PyStr(got.output),
                  raised |-> NoError,
                  invoked |-> TRUE,
                  process_error |-> got.raised,
                  inside |-> inside,
                  environ |-> ScopeExitAfter(c, env, inside, got.raised)]

\* CompilerCache.value: the verbose compilation first, the version second.
CompilerCache_value(c, env, ran_verbose, ran_version) ==
    LET output == Compiler_compile_dummy_c_source(c, env, ran_verbose)
        real == Compiler_get_real_version(c, output.environ, ran_version)
    IN  [returned |-> PyDict(<< <<"c_compiler_output", output.returned>>,
                                <<"real_version", real.returned>> >>),
         raised |-> IF output.raised # NoError THEN output.raised
                    ELSE real.raised,
         output |-> output,
         real |-> real,
         environ |-> real.environ]

\* How an invocation can go.
ProcessFails == [raised |-> TRUE, output |-> ""]
VersionRuns ==
    {ProcessFails,
     [raised |-> FALSE, output |-> "gcc (GCC) 9.3.1\nCopyright"],
     [raised |-> FALSE, output |-> "gcc: fatal error: no input files\n"],
     [raised |-> FALSE, output |-> ""]}
VerboseRuns ==
    {ProcessFails, [raised |-> FALSE, output |-> "collect2 -L/usr/lib/gcc/9"]}

\* The Compilers probed: of the family Gcc or of no family, with and without
\* modules and modifications, their C compiler a file, a name on PATH or
\* a file that is not there.
ProbePathLists ==
    {<<PyStr("/usr/bin/gcc"), PyStr("/usr/bin/g++")>>,
     <<PyStr("cc"), PyStr("CC")>>,
     <<PyStr("/usr/bin/missing"), PyNone>>}
ProbeCompilers ==
    {Compiler(n, "ubuntu20.04", "x86_64", p,
              PyList([i \in DOMAIN m |-> PyStr(m[i])]), PyNone, e,
              PyList(<<>>), PyNone, DefaultFlags) :
        n \in {"gcc@9.3.0", "generic@1.0"}, p \in ProbePathLists,
        m \in ModuleLists,
        e \in {PyDict(<<>>),
               SetEnv(<< <<"A", PyStr("1")>>, <<"B", PyStr("2")>> >>)}}

\* cache.value(self)
Value(ran_verbose, ran_version) ==
    /\ ocalls < MaxOutputCalls
    /\ ocalls' = ocalls + 1
    /\ \E got \in {CompilerCache_value(self, environ, ran_verbose,
                                       ran_version)} :
          /\ environ' = got.environ
          /\ last' = [outcome |-> IF got.raised = NoError THEN "returned"
                                  ELSE "raised",
                      returned |-> got.returned,
                      output |-> got.output,
                      real |-> got.real,
                      ran_version |-> ran_version,
                      environ |-> environ]
    /\ UNCHANGED func_cache
    /\ UNCHANGED OtherThanMemo

(***************************************************************************)
(* The specifications.  Each leaves the other parts at rest.               *)
(***************************************************************************)
EnvAtRest ==
    /\ environ = [n \in EnvNames |-> Unset]
    /\ self = GccCompiler
    /\ epc = [t \in EnvThreads |-> "out"]
    /\ backup_env = [t \in EnvThreads |-> [n \in EnvNames |-> Unset]]
    /\ loaded = [t \in EnvThreads |-> 0]
    /\ failed = [t \in EnvThreads |-> FALSE]
    /\ scopes = 0
    /\ envBefore = [t \in EnvThreads |-> [n \in EnvNames |-> Unset]]
    /\ envInside = [t \in EnvThreads |-> [n \in EnvNames |-> Unset]]
    /\ envAfterOp = [t \in EnvThreads |-> [n \in EnvNames |-> Unset]]
    /\ envSeen = [t \in EnvThreads |-> [n \in EnvNames |-> Unset]]
    /\ envOuter = [n \in EnvNames |-> Unset]
    /\ lastExit = 0

KeyAtRest ==
    /\ ka = GccCompiler
    /\ kb = GccCompiler
    /\ kstore = JObject(<<>>)
    /\ kcalls = 0
    /\ kprobes = [x \in KeyNames |-> 0]
    /\ kvalue = [x \in KeyNames |-> PyNone]
    /\ kres = [x \in KeyNames |-> PyNone]

CacheAtRest ==
    /\ store = JObject(<<>>)
    /\ initEntry = [k \in PoolKeys |-> "absent"]
    /\ readers = {}
    /\ writer = 0
    /\ pc = [p \in Procs |-> "idle"]
    /\ comp = [p \in Procs |-> GccCompiler]
    /\ key = [p \in Procs |-> _key(GccCompiler)]
    /\ data = [p \in Procs |-> PyDict(<<>>)]
    /\ result = [p \in Procs |-> PyNone]
    /\ calls = 0
    /\ didProbe = [p \in Procs |-> FALSE]
    /\ raceLost = [p \in Procs |-> FALSE]
    /\ lastCommit = store
    /\ probeCount = [k \in PoolKeys |-> 0]
    /\ firstProbe = [k \in PoolKeys |-> PyNone]
    /\ committed = [k \in PoolKeys |-> PyNone]
    /\ lastReturned = [k \in PoolKeys |-> PyNone]
    /\ prior = [p \in Procs |-> PyNone]

InitCacheSpec == InitCache /\ EnvAtRest /\ KeyAtRest /\ RestAtRest
SpecCache == InitCacheSpec /\ [][NextCache]_vars

\* Two processes call get once each, at any time, with progress: the locks
\* are granted fairly (a process that can be given the exclusive lock again
\* and again is given it), the probes and the reads and writes of the file
\* end.
FairProcs == {1, 2}
FirstGet(p, compiler) == pc[p] = "idle" /\ ReadAcquire(p, compiler)
NextCacheFair ==
    \/ \E p \in FairProcs, c \in CachePool : FirstGet(p, c)
    \/ \E p \in Procs : ReadExit(p)
    \/ \E p \in Procs : WriteAcquire(p)
    \/ \E p \in Procs : WriteReread(p)
    \/ \E p \in Procs : Probe(p)
    \/ \E p \in Procs : WriteBack(p)
    \/ \E p \in Procs : WriteExit(p)
FairCache ==
    \A p \in Procs :
        /\ WF_vars(ReadExit(p))
        /\ SF_vars(WriteAcquire(p))
        /\ WF_vars(WriteReread(p))
        /\ WF_vars(Probe(p))
        /\ WF_vars(WriteBack(p))
        /\ WF_vars(WriteExit(p))
SpecCacheFair == InitCacheSpec /\ [][NextCacheFair]_vars /\ FairCache

\* One thread runs scopes of one Compiler, one after the other.
InitEnv ==
    /\ CacheAtRest
    /\ KeyAtRest
    /\ RestAtRest
    /\ environ \in InitEnvirons
    /\ self \in EnvCompilers
    /\ epc = [t \in EnvThreads |-> "out"]
    /\ backup_env = [t \in EnvThreads |-> [n \in EnvNames |-> Unset]]
    /\ loaded = [t \in EnvThreads |-> 0]
    /\ failed = [t \in EnvThreads |-> FALSE]
    /\ scopes = 0
    /\ envBefore = [t \in EnvThreads |-> environ]
    /\ envInside = [t \in EnvThreads |-> environ]
    /\ envAfterOp = [t \in EnvThreads |-> environ]
    /\ envSeen = [t \in EnvThreads |-> environ]
    /\ envOuter = environ
    /\ lastExit = 0
NextEnv ==
    \/ EnterScope(1)
    \/ LoadModule(1)
    \/ LoadModuleFails(1)
    \/ ApplyModifications(1)
    \/ ApplyModificationsFails(1)
    \/ Operation(1)
    \/ Restore(1)
SpecEnv == InitEnv /\ [][NextEnv]_vars

\* Two threads of one process run a scope of one Compiler each, in any
\* interleaving.
\* They start from an environment that has none or all of the names, and the
\* Compiler has no environment modifications or the one that sets A then B.
ThreadEnvirons == {[n \in EnvNames |-> Unset], [n \in EnvNames |-> "0"]}
ThreadCompilers ==
    {c \in EnvCompilers :
        c.environment \in {PyDict(<<>>),
                           SetEnv(<< <<"A", PyStr("1")>>, <<"B", PyStr("2")>> >>)}}
InitEnvThreads ==
    /\ CacheAtRest
    /\ KeyAtRest
    /\ RestAtRest
    /\ environ \in ThreadEnvirons
    /\ self \in ThreadCompilers
    /\ epc = [t \in EnvThreads |-> "out"]
    /\ backup_env = [t \in EnvThreads |-> [n \in EnvNames |-> Unset]]
    /\ loaded = [t \in EnvThreads |-> 0]
    /\ failed = [t \in EnvThreads |-> FALSE]
    /\ scopes = 0
    /\ envBefore = [t \in EnvThreads |-> environ]
    /\ envInside = [t \in EnvThreads |-> environ]
    /\ envAfterOp = [t \in EnvThreads |-> environ]
    /\ envSeen = [t \in EnvThreads |-> environ]
    /\ envOuter = environ
    /\ lastExit = 0
\* Each thread runs one scope.
EnterFirstScope(t) == epc[t] = "out" /\ EnterScope(t)
NextEnvThreads ==
    \/ \E t \in EnvThreads : EnterFirstScope(t)
    \/ \E t \in EnvThreads : LoadModule(t)
    \/ \E t \in EnvThreads : LoadModuleFails(t)
    \/ \E t \in EnvThreads : ApplyModifications(t)
    \/ \E t \in EnvThreads : Operation(t)
    \/ \E t \in EnvThreads : Restore(t)
SpecEnvThreads == InitEnvThreads /\ [][NextEnvThreads]_vars

\* Two Compiler objects, and gets for them in any order.
\* __eq__ and the equality of keys are symmetric, so the first Compiler is
\* one with no alias and no implicit_rpaths setting, the second is any.
KeyBases ==
    {c \in Compilers : c.alias = PyNone /\ c.enable_implicit_rpaths = PyNone}
InitKey ==
    /\ CacheAtRest
    /\ EnvAtRest
    /\ RestAtRest
    /\ ka \in KeyBases
    /\ kb \in Compilers
    /\ kstore = JObject(<<>>)
    /\ kcalls = 0
    /\ kprobes = [x \in KeyNames |-> 0]
    /\ kvalue = [x \in KeyNames |-> PyNone]
    /\ kres = [x \in KeyNames |-> PyNone]
NextKey ==
    \/ KeyGet("a")
    \/ KeyGet("b")
SpecKey == InitKey /\ [][NextKey]_vars

\* tokenize_flags is called with a flag string and a propagate value.
InitFlags ==
    /\ CacheAtRest
    /\ EnvAtRest
    /\ KeyAtRest
    /\ flags_values \in FlagStrings
    /\ propagate \in BOOLEAN
    /\ flags_with_propagation = <<>>
    /\ tokenized = FALSE
    /\ LinkAtRest
    /\ LateAtRest
NextFlags == TokenizeFlags
SpecFlags == InitFlags /\ [][NextFlags]_vars

\* A verbose output is parsed for link directories.
InitLink ==
    /\ CacheAtRest
    /\ EnvAtRest
    /\ KeyAtRest
    /\ FlagsAtRest
    /\ string \in Texts
    /\ lpc = "start"
    /\ line_dirs = <<>>
    /\ raw_link_dirs = <<>>
    /\ implicit_link_dirs = <<>>
    /\ link_dirs = <<>>
    /\ LateAtRest
NextLink ==
    \/ ParseLinkPaths
    \/ ParseNonSystemLinkDirs
SpecLink == InitLink /\ [][NextLink]_vars

\* The methods of one Compiler are called, at most MaxMethodCalls times.
ScopesAtRest ==
    /\ epc = [t \in EnvThreads |-> "out"]
    /\ backup_env = [t \in EnvThreads |-> [n \in EnvNames |-> Unset]]
    /\ loaded = [t \in EnvThreads |-> 0]
    /\ failed = [t \in EnvThreads |-> FALSE]
    /\ scopes = 0
    /\ envBefore = [t \in EnvThreads |-> [n \in EnvNames |-> Unset]]
    /\ envInside = [t \in EnvThreads |-> [n \in EnvNames |-> Unset]]
    /\ envAfterOp = [t \in EnvThreads |-> [n \in EnvNames |-> Unset]]
    /\ envSeen = [t \in EnvThreads |-> [n \in EnvNames |-> Unset]]
    /\ envOuter = [n \in EnvNames |-> Unset]
    /\ lastExit = 0
InitMethods ==
    /\ CacheAtRest
    /\ KeyAtRest
    /\ FlagsAtRest
    /\ LinkAtRest
    /\ MemoAtRest
    /\ ScopesAtRest
    /\ self \in MethodCompilers
    /\ environ \in MethodEnvirons
    /\ cache_file \in MethodFiles(self)
    /\ mcalls = 0
    /\ method = "none"
    /\ returned = PyNone
    /\ raised = NoError
    /\ transactions = 0
    /\ invocations = 0
    /\ pre = [cache_file |-> cache_file, transactions |-> 0,
              invocations |-> 0]
NextMethods ==
    \/ Version
    \/ RealVersion
    \/ ImplicitRpathsCall
    \/ VerifyExecutables
SpecMethods == InitMethods /\ [][NextMethods]_vars

\* get_compiler_version_output is called, PATH changing in between.
InitMemo ==
    /\ CacheAtRest
    /\ KeyAtRest
    /\ FlagsAtRest
    /\ LinkAtRest
    /\ MethodsAtRest
    /\ ScopesAtRest
    /\ self = GccCompiler
    /\ environ \in MethodEnvirons
    /\ func_cache = {}
    /\ ocalls = 0
    /\ last = NoCall
NextMemo ==
    \/ ChangePath
    \/ \E compiler_path \in CompilerPaths, version_arg \in VersionArgs :
          GetCompilerVersionOutput(compiler_path, version_arg)
SpecMemo == InitMemo /\ [][NextMemo]_vars

\* CompilerCache.value is called on one Compiler, again and again.
InitProbe ==
    /\ CacheAtRest
    /\ KeyAtRest
    /\ FlagsAtRest
    /\ LinkAtRest
    /\ MethodsAtRest
    /\ ScopesAtRest
    /\ self \in ProbeCompilers
    /\ environ \in InitEnvirons
    /\ func_cache = {}
    /\ ocalls = 0
    /\ last = NoCall
NextProbe ==
    \E ran_verbose \in VerboseRuns, ran_version \in VersionRuns :
        Value(ran_verbose, ran_version)
SpecProbe == InitProbe /\ [][NextProbe]_vars

(***************************************************************************)
(* Properties of FileCompilerCache.get (under SpecCache).                  *)
(***************************************************************************)
Done(p) == pc[p] = "done"
InWrite(p) == pc[p] \in {"reread", "compute", "write", "written"}

\* C1: for a key the store held no valid entry for at the start, the probe
\* (value) runs at most once whatever the interleaving, exactly once as soon
\* as some call for the key has returned, and all calls for the key that
\* have returned hold the same ProbeResult.
C1_ProbedOnceSameResult ==
    \A k \in PoolKeys :
        initEntry[k] # "valid" =>
            /\ probeCount[k] <= 1
            /\ (\E p \in Procs : Done(p) /\ key[p] = k) => probeCount[k] = 1
            /\ \A p, q \in Procs :
                  Done(p) /\ Done(q) /\ key[p] = k /\ key[q] = k
                      => result[p] = result[q]

\* Two processes raced for the same absent key: one probed, the other missed
\* in its read, found the entry on taking the write lock, and both returned.
C1_Witness ==
    \E p, q \in Procs :
        /\ p # q /\ Done(p) /\ Done(q) /\ key[p] = key[q]
        /\ initEntry[key[p]] = "absent"
        /\ didProbe[p] /\ raceLost[q]

\* C2: once a valid entry has been committed under a key, every later state
\* of the file that a transaction completed, and every state of the file
\* that is not in the middle of a write, holds that same entry under the key.
C2_CommittedEntryStable ==
    \A k \in PoolKeys :
        committed[k] # PyNone =>
            /\ StoredEntry(lastCommit, k) = committed[k]
            /\ store # FileTorn => StoredEntry(store, k) = committed[k]

\* Both keys were committed by gets, one after the other, into a file that
\* held neither at the start.
C2_Witness ==
    /\ \A k \in PoolKeys : initEntry[k] = "absent" /\ committed[k] # PyNone
    /\ \A k \in PoolKeys : probeCount[k] = 1
    /\ writer = 0

\* C3: a process that missed in its read transaction and finds the key
\* committed when it gets the write transaction returns the committed entry
\* and does not run the probe.
C3_RaceLoserReusesEntry ==
    \A p \in Procs :
        raceLost[p] =>
            /\ pc[p] # "compute"
            /\ ~didProbe[p]
            /\ pc[p] \in {"write", "written", "done"}
                  => result[p] = committed[key[p]]

C3_Witness ==
    \E p \in Procs : raceLost[p] /\ Done(p) /\ probeCount[key[p]] = 1

\* C4: a call that begins after a call for the same descriptor has returned
\* does not run the probe and returns the same c_compiler_output and
\* real_version; over both calls the probe ran at most once.
C4_SecondCallSameResult ==
    \A p \in Procs :
        Done(p) /\ prior[p] # PyNone =>
            /\ ~didProbe[p]
            /\ probeCount[key[p]] <= 1
            /\ result[p].c_compiler_output = prior[p].c_compiler_output
            /\ result[p].real_version = prior[p].real_version

\* The first call probed (no compiler output), the second found the entry.
C4_Witness ==
    \E p \in Procs :
        /\ Done(p) /\ prior[p] # PyNone
        /\ probeCount[key[p]] = 1
        /\ result[p].c_compiler_output = PyNone

\* C8: when the first probe for a key fails (no output, version "unknown"),
\* that result is what is committed under the key, no second probe is run
\* for it, and every call for the key returns it.
C8_FailureIsCached ==
    \A k \in PoolKeys :
        firstProbe[k] = ProbeFailure =>
            /\ probeCount[k] = 1
            /\ committed[k] \in {PyNone, from_dict(ProbeFailure)}
            /\ writer = 0 => StoredEntry(store, k) = from_dict(ProbeFailure)
            /\ \A p \in Procs :
                  Done(p) /\ key[p] = k => result[p] = from_dict(ProbeFailure)

\* A later call returned the cached failure without probing.
C8_Witness ==
    \E p \in Procs :
        /\ Done(p) /\ ~didProbe[p]
        /\ firstProbe[key[p]] = ProbeFailure
        /\ result[p] = from_dict(ProbeFailure)

\* C9: whatever the file held (no JSON, no object, a malformed entry under
\* the key), get raises nothing, returns a valid entry, has probed exactly
\* once for a key that had no valid entry, and the file as last committed is
\* an object holding that entry under the key.
C9_CorruptStoreRecovered ==
    \A p \in Procs :
        /\ pc[p] # "raised"
        /\ Done(p) =>
              /\ IsStr(result[p].real_version)
              /\ result[p].c_compiler_output.ty \in {"str", "NoneType"}
              /\ lastCommit.j = "object"
              /\ StoredEntry(lastCommit, key[p]) = result[p]
              /\ initEntry[key[p]] # "valid" => probeCount[key[p]] = 1

\* A malformed entry under the key was dropped and recomputed.
C9_Witness ==
    \E p \in Procs :
        Done(p) /\ initEntry[key[p]] = "malformed" /\ didProbe[p]

\* C10: whenever a process is inside a read transaction the file is, whole,
\* what the last completed write (or the initial state) left; at most one
\* process is inside a write transaction, and none while a reader is inside.
C10_NoTornReadOneWriter ==
    /\ readers # {} => store = lastCommit /\ store # FileTorn
    /\ \A p, q \in Procs : InWrite(p) /\ InWrite(q) => p = q
    /\ \A p \in Procs : InWrite(p) => writer = p /\ readers = {}

\* A reader is inside its transaction on a file that a write transaction
\* of another call has replaced.
C10_Witness ==
    /\ readers # {}
    /\ store # FileTorn
    /\ \E k \in PoolKeys :
          /\ initEntry[k] = "absent"
          /\ committed[k] # PyNone
          /\ StoredEntry(store, k) = committed[k]

\* What the file holds under key k, valid or not.
Absent == [ty |-> "absent"]
Member(file, k) ==
    IF DictHas(LoadData(file), k) THEN DictGet(LoadData(file), k) ELSE Absent
AllKeys == PoolKeys \cup ForeignKeys

\* C21, the state part: once every call has returned, the file holds a
\* valid entry under the key of each of them.
C21_EveryKeyStored ==
    (writer = 0 /\ \A p \in Procs : pc[p] \in {"idle", "done"})
    => \A p \in Procs : Done(p) => StoredEntry(store, key[p]) # PyNone
\* C21, the step part: what a completed write leaves under a key differs
\* from what the file held before only for the key of the get that wrote,
\* and only where the file held no valid entry under it.
C21_OnlyOwnKeyWritten ==
    \A k \in AllKeys :
        Member(lastCommit', k) # Member(lastCommit, k)
        => /\ writer # 0
           /\ key[writer] = k
           /\ StoredEntry(lastCommit, k) = PyNone
\* C21: no update is lost.  Whatever the interleaving of gets, every
\* completed write changes the file under the writer's own key only and
\* never a valid entry, so that everything the file held at the start under
\* other keys, and every valid entry, stays as it was; and when all calls
\* have returned the file holds a valid entry for each of their keys.
C21_NoLostUpdate == []C21_EveryKeyStored /\ [][C21_OnlyOwnKeyWritten]_vars
\* Two processes asked for the two keys at the same time, both probed and
\* both wrote: the file holds both entries, and what it held before.
C21_Witness ==
    /\ \A p \in Procs : Done(p) /\ didProbe[p]
    /\ \A k \in PoolKeys : StoredEntry(store, k) # PyNone
    /\ \A k \in ForeignKeys : Member(store, k) = Member(StoreOfOthers, k)
    /\ Member(store, _key(OtherCompiler)) # Absent

\* The step of process p that ends its read transaction on a file holding
\* a valid entry under its key.
HitStep(p) ==
    /\ pc[p] = "read"
    /\ pc'[p] # "read"
    /\ StoredEntry(store, key[p]) # PyNone
\* C29: a get whose read transaction finds a valid entry under the key
\* returns that entry as it leaves the read transaction: it takes no write
\* transaction, runs no probe, and the file stays as it is.
C29_HitReadsOnly ==
    [][\A p \in Procs :
          HitStep(p)
          => /\ pc'[p] = "done"
             /\ result'[p] = StoredEntry(store, key[p])
             /\ store' = store
             /\ writer = 0 /\ writer' = 0
             /\ probeCount' = probeCount
             /\ ~didProbe'[p]]_vars
\* A get has returned the entry an earlier run had stored; no probe has run
\* and the file is the one found at the start.
C29_Witness ==
    \E p \in Procs :
        /\ Done(p)
        /\ initEntry[key[p]] = "valid"
        /\ ~didProbe[p] /\ ~raceLost[p]
        /\ result[p] = StoredEntry(store, key[p])
        /\ \A k \in PoolKeys : probeCount[k] = 0
        /\ store = JObject(<< <<_key(GccCompiler), EarlierEntry(GccCompiler)>> >>)

\* Process p is inside a call of get.
InGet(p) == pc[p] \in {"read", "miss", "reread", "compute", "write", "written"}
\* C30, the safety part: only a process inside its read transaction holds
\* the shared lock; one that waits for the exclusive lock, or holds it,
\* holds no shared lock.
C30_NoUpgradeWait ==
    \A p \in Procs :
        /\ p \in readers => pc[p] = "read"
        /\ pc[p] = "miss" \/ InWrite(p) => p \notin readers
\* C30: get gives its read transaction up before it asks for the write
\* transaction, and with locks granted fairly and probes that end, every
\* call of get that a process is inside of returns.
C30_EveryGetReturns ==
    /\ []C30_NoUpgradeWait
    /\ \A p \in Procs : InGet(p) ~> Done(p)
\* Both processes missed and wait for the exclusive lock, neither holding
\* the shared one.
C30_Witness ==
    /\ \A p \in Procs : pc[p] = "miss"
    /\ readers = {}
    /\ writer = 0

(***************************************************************************)
(* Properties of Compiler.compiler_environment (under SpecEnv).            *)
(***************************************************************************)
Exited(t) == epc[t] = "exited"

\* C5 as stated: whenever a scope has been left, by return or by exception,
\* os.environ is what it was when the scope was entered, for every toolchain
\* and every operation.
C5_EnvironmentRestoredAlways ==
    \A t \in EnvThreads : Exited(t) => environ = envBefore[t]

\* C5: whenever a scope of a toolchain that declares a module or an
\* environment modification has been left, by return or by exception,
\* os.environ is what it was when the scope was entered, whatever the
\* operation did to it.
C5_EnvironmentRestored ==
    \A t \in EnvThreads :
        Exited(t) /\ ~FastPath(self) => environ = envBefore[t]

\* The scope changed a variable, the operation introduced one that was
\* absent before the scope and then raised, and the scope has been left.
C5_Witness ==
    \E t \in EnvThreads :
        /\ Exited(t) /\ ~FastPath(self) /\ failed[t]
        /\ envInside[t] # envBefore[t]
        /\ \E n \in EnvNames :
              envBefore[t][n] = Unset /\ envInside[t][n] = Unset
                  /\ envAfterOp[t][n] # Unset

\* C12: for a Compiler with no modules and no environment modifications the
\* scope takes no copy of os.environ, the operation starts in the environment
\* the scope was entered in, and once the scope has been left os.environ is
\* what the operation left.
C12_FastPathIsNoOp ==
    \A t \in EnvThreads :
        ~Truthy(self.modules) /\ ~Truthy(self.environment) =>
            /\ backup_env[t] = [n \in EnvNames |-> Unset]
            /\ loaded[t] = 0
            /\ epc[t] \notin {"load", "body", "finally"}
            /\ epc[t] = "fast_body" => environ = envBefore[t]
            /\ Exited(t) => /\ envInside[t] = envBefore[t]
                            /\ environ = envAfterOp[t]

\* Such a scope was entered in an environment that has all the names, the
\* operation changed it, and the change is still there after the scope.
C12_Witness ==
    /\ ~Truthy(self.modules) /\ ~Truthy(self.environment)
    /\ Exited(1)
    /\ \A n \in EnvNames : envBefore[1][n] # Unset
    /\ environ # envBefore[1]

\* The scope of thread t is in its non-fast path.
InSlowPath(t) == epc[t] \in {"load", "body", "finally"}

\* What holds at each point of the non-fast path: the copy is the environment
\* of the entry; while the modules are loaded os.environ is the copy with the
\* first modules loaded in declared order; the operation starts in the copy
\* with all the modules loaded and then the modifications applied.
C22_PointsInOrder ==
    \A t \in EnvThreads :
        /\ InSlowPath(t) => backup_env[t] = envBefore[t]
        /\ epc[t] = "load" =>
              environ = LoadModules(backup_env[t],
                            SubSeq(self.modules.elems, 1, loaded[t]), 1)
        /\ epc[t] = "body" =>
              /\ loaded[t] = Len(self.modules.elems)
              /\ ~failed[t]
              /\ environ = apply_modifications(
                               LoadModules(backup_env[t],
                                           self.modules.elems, 1),
                               self.environment)

\* What each step of the non-fast path is: the entry copies os.environ and
\* changes nothing; a step that stays among the loads loads the next module
\* of the list; the body is reached from the loads only, once every module is
\* loaded, by applying the modifications; the finally clause is reached from
\* the body by the operation or from the loads by a failure; the scope is left
\* from the finally clause only, by clearing os.environ and filling it with
\* the copy.
C22_StepsInOrder ==
    \A t \in EnvThreads :
        /\ (epc[t] \in {"out", "exited"} /\ epc'[t] \notin {"out", "exited"}
                /\ ~FastPath(self)) =>
              /\ epc'[t] = "load"
              /\ loaded'[t] = 0
              /\ backup_env'[t] = environ
              /\ environ' = environ
        /\ (epc[t] = "load" /\ epc'[t] = "load" /\ loaded'[t] # loaded[t]) =>
              /\ loaded[t] < Len(self.modules.elems)
              /\ loaded'[t] = loaded[t] + 1
              /\ environ' = load_module(environ,
                                        self.modules.elems[loaded[t] + 1])
        /\ (epc[t] # "body" /\ epc'[t] = "body") =>
              /\ epc[t] = "load"
              /\ loaded[t] = Len(self.modules.elems)
              /\ environ' = apply_modifications(environ, self.environment)
        /\ (epc[t] # "finally" /\ epc'[t] = "finally") =>
              \/ epc[t] = "body" /\ envSeen'[t] = environ
              \/ epc[t] = "load" /\ failed'[t]
        /\ (InSlowPath(t) /\ ~InSlowPath(t)') =>
              /\ epc[t] = "finally"
              /\ epc'[t] = "exited"
              /\ environ' = os_environ_update(os_environ_clear(environ),
                                              backup_env[t])
        /\ InSlowPath(t) => backup_env'[t] = backup_env[t]

\* C22: in the non-fast path of compiler_environment os.environ is copied
\* before anything changes it, the modules are loaded one by one in declared
\* order, the modifications are applied only once all modules are loaded, the
\* operation runs only after that, and os.environ is cleared and filled with
\* the copy after the operation has ended.
C22_EventsInOrder == []C22_PointsInOrder /\ [][C22_StepsInOrder]_vars

\* A scope with two modules and modifications was entered in an environment
\* that has all the names, the operation ran in the environment with the last
\* module's effect and the modifications, changed it, and the scope was left
\* with the environment of the entry.
C22_Witness ==
    /\ Len(self.modules.elems) = 2
    /\ Truthy(self.environment)
    /\ Exited(1)
    /\ ~failed[1]
    /\ loaded[1] = 2
    /\ \A n \in EnvNames : envBefore[1][n] # Unset
    /\ envSeen[1] = envInside[1]
    /\ envSeen[1]["M"] = "m2"
    /\ envSeen[1] # apply_modifications(envBefore[1], self.environment)
    /\ envAfterOp[1] # envSeen[1]
    /\ environ = envBefore[1]

\* The failure of a load or of the modifications goes to the finally clause
\* with the failure recorded, the finally clause cannot be left for the body,
\* and it is left with the failure still recorded and os.environ equal to the
\* environment of the entry.
C23_FailureStep ==
    \A t \in EnvThreads :
        /\ (epc[t] = "load" /\ epc'[t] # "load") =>
              /\ epc'[t] \in {"body", "finally"}
              /\ failed'[t] <=> epc'[t] = "finally"
              /\ failed'[t] => envSeen' = envSeen /\ envAfterOp' = envAfterOp
        /\ (epc[t] = "finally" /\ epc'[t] # "finally") =>
              /\ epc'[t] = "exited"
              /\ failed'[t] = failed[t]
              /\ environ' = envBefore[t]
              /\ envSeen' = envSeen /\ envAfterOp' = envAfterOp

\* A scope with modules or modifications left after a failure has os.environ
\* as it was at the entry, and one that is past its loads without every
\* module loaded has failed.
C23_FailureState ==
    \A t \in EnvThreads :
        /\ (Exited(t) /\ failed[t] /\ ~FastPath(self)) =>
              environ = envBefore[t]
        /\ (epc[t] \in {"finally", "exited"}
                /\ loaded[t] < Len(self.modules.elems)) => failed[t]

\* C23: when loading a module or applying the modifications fails while the
\* scope is entered, the failure reaches the caller of the scope, the
\* operation is not run, and os.environ is restored to what it was at the
\* entry, without the effect of the modules loaded before the failure.
C23_FailedEntryRestores == []C23_FailureState /\ [][C23_FailureStep]_vars

\* The second module of a scope failed to load after the first had changed
\* os.environ, and the scope was left with the environment of the entry.
C23_Witness ==
    /\ Len(self.modules.elems) = 2
    /\ Exited(1)
    /\ failed[1]
    /\ loaded[1] = 1
    /\ envBefore[1]["M"] = Unset
    /\ load_module(envBefore[1], self.modules.elems[1]) # envBefore[1]
    /\ environ = envBefore[1]

(***************************************************************************)
(* Properties of FileCompilerCache._key (under SpecKey).                   *)
(***************************************************************************)
\* C6 as stated: two Compilers that are equal under __eq__ have the same
\* cache key.
C6_EqualSameKey == __eq__(ka, kb) => _key(ka) = _key(kb)

\* C7: two Compilers that are unequal under __eq__ have distinct cache keys,
\* and after any sequence of gets for the two, what get returned for each is
\* the entry made from a probe of that same Compiler, which ran once.
C7_UnequalNeverShareEntry ==
    ~__eq__(ka, kb) =>
        /\ _key(ka) # _key(kb)
        /\ \A x \in KeyNames :
              kres[x] # PyNone =>
                  /\ kprobes[x] = 1
                  /\ kres[x] = from_dict(kvalue[x])

\* Two Compilers that differ in their modules alone were both looked up,
\* and both probes gave the same result.
C7_Witness ==
    /\ ~__eq__(ka, kb)
    /\ [ka EXCEPT !.modules = kb.modules] = kb
    /\ kres["a"] # PyNone
    /\ kres["b"] = kres["a"]

\* C28 as stated: two Compilers that are equal under __eq__ have the same
\* hash, also when their environment mappings hold the same items in a
\* different order.
C28_EqualSameHash == __eq__(ka, kb) => __hash__(ka) = __hash__(kb)

(***************************************************************************)
(* Compiler.compiler_environment run by two threads (under SpecEnvThreads).*)
(***************************************************************************)
Quiet == \A t \in EnvThreads : epc[t] \in {"out", "exited"}

\* C11: the scopes of two threads are not isolated from each other: once no
\* scope is open, os.environ is the copy taken by the thread that left last,
\* whatever the environment was before the first of the scopes was entered.
C11_LastExitDecides ==
    Quiet /\ lastExit # 0 /\ ~FastPath(self)
        => environ = envBefore[lastExit]

\* Two threads ran one scope each, the scopes overlapped, both have been
\* left, and os.environ is not what it was before either was entered; the
\* operation of one thread found os.environ changed by the other thread.
C11_Witness ==
    /\ ~FastPath(self)
    /\ scopes = 2
    /\ \A t \in EnvThreads : Exited(t)
    /\ environ # envOuter
    /\ \E t \in EnvThreads : ~failed[t] /\ envSeen[t] # envInside[t]

(***************************************************************************)
(* Properties of tokenize_flags (under SpecFlags).                         *)
(***************************************************************************)
RECURSIVE JoinWords(_)
JoinWords(words) ==
    IF words = <<>> THEN ""
    ELSE IF Len(words) = 1 THEN words[1]
    ELSE words[1] \o " " \o JoinWords(Tail(words))

\* C18: tokenize_flags returns one (token, propagate) pair per group, in
\* input order: there is a token for the first word and one for every later
\* word that starts with "-"; every token but the first starts with "-", no
\* word after the first inside a token starts with "-", and the tokens put
\* together are the words of the input joined by single spaces.  A string
\* without words gives the empty list; one whose words have no leading "-"
\* gives one token.
C18_TokensAreGroups ==
    tokenized =>
        LET words == split(flags_values)
            r == flags_with_propagation
            dashed == {i \in 2 .. Len(words) : startswith(words[i], "-")}
        IN  /\ words = <<>> => r = <<>>
            /\ words # <<>> => Len(r) = 1 + Cardinality(dashed)
            /\ \A k \in 1 .. Len(r) : r[k][2] = propagate
            /\ \A k \in 2 .. Len(r) : startswith(r[k][1], "-")
            /\ \A k \in 1 .. Len(r) :
                  LET inside == split(r[k][1])
                  IN  /\ JoinWords(inside) = r[k][1]
                      /\ \A j \in 2 .. Len(inside) : ~startswith(inside[j], "-")
            /\ JoinWords([k \in 1 .. Len(r) |-> r[k][1]]) = JoinWords(words)
            /\ (words # <<>> /\ \A i \in 1 .. Len(words) :
                                   ~startswith(words[i], "-"))
                  => r = << <<JoinWords(words), propagate>> >>

\* A flag and its value, two blanks apart: one token, joined by one blank.
C18_Witness ==
    /\ tokenized
    /\ flags_values = "-a  a"
    /\ propagate
    /\ flags_with_propagation = << <<"-a a", TRUE>> >>

\* C31: tokenize_flags loses and reorders no words: the tokens joined by
\* single blanks are the words of the flag string joined by single blanks,
\* every token after the first starts with "-", and the joined string, which
\* is what to_dict writes for a flag, tokenizes to the same list again.
C31_TokensRoundTrip ==
    tokenized =>
        \A r \in {flags_with_propagation} :
            \A joined \in {Join([k \in 1 .. Len(r) |-> r[k][1]])} :
                /\ joined = Join(split(flags_values))
                /\ \A k \in 2 .. Len(r) : startswith(r[k][1], "-")
                /\ tokenize_flags(joined, propagate) = r

\* A word and a flag two blanks apart: two tokens, which to_dict joins with
\* one blank into a string that is not the input and tokenizes to the same
\* two tokens.
C31_Witness ==
    /\ tokenized
    /\ flags_values = "a  -a"
    /\ flags_with_propagation = << <<"a", propagate>>, <<"-a", propagate>> >>
    /\ Join(<<"a", "-a">>) # flags_values
    /\ tokenize_flags(Join(<<"a", "-a">>), propagate) = flags_with_propagation

(***************************************************************************)
(* Properties of _parse_link_paths and _parse_non_system_link_dirs (under  *)
(* SpecLink).                                                              *)
(***************************************************************************)
\* An absolute path in normal form: one leading "/" (or two, which POSIX
\* keeps apart from one), no empty, "." or ".." component.
IsNormalAbsolute(p) ==
    /\ startswith(p, "/")
    /\ p \notin {"/", "//"} =>
          LET first == IF startswith(p, "//") THEN 3 ELSE 2
              comps == SplitOn(SubSeq(p, first, Len(p)), "/")
          IN  \A i \in 1 .. Len(comps) : comps[i] \notin {"", ".", ".."}

FirstIndex(seq, x) == CHOOSE i \in 1 .. Len(seq) :
    seq[i] = x /\ \A j \in 1 .. i - 1 : seq[j] # x

\* C16: the list _parse_link_paths returns has no duplicates, its elements
\* are normal absolute paths, they are exactly the normalisations of the
\* candidates the scan collected, and they are in the order in which the
\* candidates first occurred.
C16_DedupedInFirstSeenOrder ==
    lpc # "start" =>
        LET r == implicit_link_dirs
            norm == [i \in 1 .. Len(raw_link_dirs) |-> abspath(raw_link_dirs[i])]
        IN  /\ \A i, j \in 1 .. Len(r) : r[i] = r[j] => i = j
            /\ \A i \in 1 .. Len(r) : IsNormalAbsolute(r[i])
            /\ Range(r) = Range(norm)
            /\ \A i, j \in 1 .. Len(r) :
                  i < j => FirstIndex(norm, r[i]) < FirstIndex(norm, r[j])

\* Two ld lines name /opt/lib and /opt/lib2 three times between them, one
\* of them as the word after -L and one with a trailing slash.
C16_Witness ==
    /\ lpc = "_parse_link_paths"
    /\ string = "ld -L/opt/lib -L /opt/lib2\nld -L/opt/lib2/ -L/opt/lib\n"
    /\ raw_link_dirs = <<"/opt/lib", "/opt/lib2", "/opt/lib2/", "/opt/lib">>
    /\ implicit_link_dirs = <<"/opt/lib", "/opt/lib2">>

\* C17 as stated: a line of linker-line shape in which the ignore pattern
\* occurs, wherever in the line, adds no directory.
C17_IgnoredWhereverItOccurs ==
    lpc # "start" =>
        LET lines == splitlines(string)
        IN  \A i \in 1 .. Len(lines) :
                _LINKER_LINE(lines[i]) /\ _LINKER_LINE_IGNORE_search(lines[i])
                    => line_dirs[i] = <<>>

\* lib_search_paths before each line, given what it is after each line;
\* whether a line is captured in the block; whether a line is a linker line
\* that is not ignored.
InBlockBefore(after, i) == i > 1 /\ after[i - 1]
Captured(lines, after, i) ==
    InBlockBefore(after, i) /\ startswith(lines[i], "\t")
Accepted(line) == _LINKER_LINE(line) /\ ~_LINKER_LINE_IGNORE(line)
WithoutTab(line) == SubSeq(line, 2, Len(line))

\* C25 as stated: the parser is inside the block after a line exactly when
\* the line is the header or is a tab-leading line met inside the block; a
\* tab-leading line met inside the block is captured without its tab, and no
\* other line is captured as an entry of the block.
C25_InBlockIffHeaderOrTabInside ==
    lpc # "start" =>
        \A lines \in {splitlines(string)} :
            \A after \in {BlockLoop(lines, 1, FALSE, <<>>)} :
                \A i \in 1 .. Len(lines) :
                    /\ after[i] <=>
                          \/ lines[i] = "Library search paths:"
                          \/ Captured(lines, after, i)
                    /\ Captured(lines, after, i) =>
                          line_dirs[i] = <<WithoutTab(lines[i])>>
                    /\ ~Captured(lines, after, i) =>
                          line_dirs[i] = LinkerLineDirs(lines[i])

\* C26 as stated: every line that is a linker line and is not ignored adds
\* the directories of its arguments, captured in the block or not.
C26_EveryAcceptedLineScanned ==
    lpc # "start" =>
        \A lines \in {splitlines(string)} :
            \A i \in 1 .. Len(lines) :
                Accepted(lines[i]) =>
                    \A dirs \in {ArgLoop(split(lines[i]), 1, FALSE, <<>>)} :
                        Range(dirs) \subseteq Range(line_dirs[i])

\* C26, amended: a line captured in the block adds the line without its tab
\* and nothing else; every other line, the line that ends a block included,
\* adds the directories of its arguments when it is a linker line that is
\* not ignored, and nothing when it is not.
C26_AcceptedLineScannedUnlessCaptured ==
    lpc # "start" =>
        \A lines \in {splitlines(string)} :
            \A after \in {BlockLoop(lines, 1, FALSE, <<>>)} :
                /\ Len(line_dirs) = Len(lines)
                /\ \A i \in 1 .. Len(lines) :
                      line_dirs[i] =
                          IF Captured(lines, after, i)
                          THEN <<WithoutTab(lines[i])>>
                          ELSE IF Accepted(lines[i])
                          THEN ArgLoop(split(lines[i]), 1, FALSE, <<>>)
                          ELSE <<>>

\* A linker line with a leading tab follows the header: it is captured whole
\* and its -L argument adds nothing.
C26_Witness ==
    /\ lpc = "_parse_link_paths"
    /\ string = "Library search paths:\n\t/bin/ld -L/opt/y\n"
    /\ Accepted("\t/bin/ld -L/opt/y")
    /\ line_dirs = << <<>>, <<"/bin/ld -L/opt/y">> >>
    /\ implicit_link_dirs = <<"/bin/ld -L/opt/y">>

\* The directories of the words of a line when the word after a bare -L or
\* -Y is taken whatever it is.
RECURSIVE TakingNextWord(_, _, _, _)
TakingNextWord(args, i, next_arg, dirs) ==
    IF i > Len(args) THEN dirs
    ELSE IF next_arg
    THEN TakingNextWord(args, i + 1, FALSE, Append(dirs, args[i]))
    ELSE IF args[i] \in {"-L", "-Y"}
    THEN TakingNextWord(args, i + 1, TRUE, dirs)
    ELSE TakingNextWord(args, i + 1, FALSE,
                        dirs \o _LINK_DIR_ARG(args[i])
                             \o _LIBPATH_ARG(args[i]))

\* C27 as stated: in a linker line that is not ignored, the word after each
\* bare -L or -Y is added as a directory, whatever it is; a word -L<path>,
\* /LIBPATH:<path> or -libpath:<path> that is not taken so adds its path; and
\* a bare -L or -Y at the end of a line takes nothing from the next line.
C27_BareFlagTakesNextWord ==
    lpc # "start" =>
        \A lines \in {splitlines(string)} :
            \A after \in {BlockLoop(lines, 1, FALSE, <<>>)} :
                \A i \in 1 .. Len(lines) :
                    (~Captured(lines, after, i) /\ Accepted(lines[i])) =>
                        \A args \in {split(lines[i])} :
                            line_dirs[i] =
                                TakingNextWord(args, 1, FALSE, <<>>)

\* C20: _parse_non_system_link_dirs returns the directories of
\* _parse_link_paths' list that exist, are none of the system directories
\* and are not below one of the six roots, in the order of that list; a root
\* itself is not below a root.
C20_NonSystemSublist ==
    /\ \A x \in system_dirs :
          ~in_system_subdirectory(SubSeq(x, 1, Len(x) - 1))
    /\ lpc = "_parse_non_system_link_dirs" =>
          LET keep(d) ==
                  /\ d \in ExistingDirs
                  /\ d \notin SystemDirs
                  /\ \A x \in system_dirs :
                        ~(Len(d) > Len(x) /\ SubSeq(d, 1, Len(x)) = x)
              kept == {i \in 1 .. Len(implicit_link_dirs) :
                          keep(implicit_link_dirs[i])}
          IN  /\ Len(link_dirs) = Cardinality(kept)
              /\ \A k \in 1 .. Len(link_dirs) :
                    \E i \in kept :
                        /\ link_dirs[k] = implicit_link_dirs[i]
                        /\ Cardinality({j \in kept : j < i}) = k - 1

\* /usr/lib and /usr/lib/foo exist and are dropped, /no does not exist, and
\* /opt/lib and /opt/lib2 are kept, in their order.
C20_Witness ==
    /\ lpc = "_parse_non_system_link_dirs"
    /\ implicit_link_dirs =
          <<"/usr/lib", "/usr/lib/foo", "/no", "/opt/lib", "/opt/lib2">>
    /\ link_dirs = <<"/opt/lib", "/opt/lib2">>
(***************************************************************************)
(* Properties of the methods of a Compiler (under SpecMethods).            *)
(***************************************************************************)
\* The entry the cache file holds for self.
CachedEntry == StoredEntry(cache_file, _key(self))

\* C13: for a Compiler whose enable_implicit_rpaths is False,
\* implicit_rpaths() returns the empty list whatever the cache file holds
\* (no file, an unreadable one, an entry with any verbose output), and it
\* starts no cache transaction, does not run the compiler and leaves the
\* cache file as it was.
C13_DisabledIsEmptyAndCacheFree ==
    (method = "implicit_rpaths" /\ self.enable_implicit_rpaths = PyBool(FALSE))
    => /\ returned = <<>>
       /\ transactions = pre.transactions
       /\ invocations = pre.invocations
       /\ cache_file = pre.cache_file
\* implicit_rpaths() has returned [] for a disabled Compiler whose cached
\* verbose output names two directories an enabled Compiler would return,
\* with no transaction started.
C13_Witness ==
    /\ method = "implicit_rpaths"
    /\ self.enable_implicit_rpaths = PyBool(FALSE)
    /\ CachedEntry # PyNone
    /\ CachedEntry.c_compiler_output = PyStr("ld -L/opt/lib -L /opt/lib2\n")
    /\ returned = <<>>
    /\ transactions = 0
    /\ mcalls = 1

\* C14: real_version returns the declared version (spec.version) when the
\* cached real version string is empty or "unknown", and the version parsed
\* from that string otherwise, so that it differs from the parsed version
\* only in the first case; the declared version stays what it was.
C14_RealVersionOrDeclared ==
    method = "real_version"
    => /\ CachedEntry # PyNone
       /\ LET real_version_str == CachedEntry.real_version.s
              declared == [version |-> "9.3.0"]
              parsed == [version |-> real_version_str]
          IN  /\ real_version_str \in {"", "unknown"} => returned = declared
              /\ real_version_str \notin {"", "unknown"} => returned = parsed
              /\ returned # parsed => real_version_str \in {"", "unknown"}
              /\ version(self) = declared
              /\ self.spec = "gcc@9.3.0"
\* real_version has fallen back to the declared version on a cached
\* "unknown" that an earlier run had left in the file.
C14_Witness ==
    /\ method = "real_version"
    /\ mcalls = 1
    /\ StoredEntry(pre.cache_file, _key(self)) # PyNone
    /\ CachedEntry.real_version = PyStr("unknown")
    /\ returned = [version |-> "9.3.0"]
    /\ invocations = 0

\* The paths of self that are given (neither None nor empty) and, looked up
\* in the environment the scope of self sets up, are no executable file.
UsableExecutable(exe, env) ==
    IF isabs(exe) THEN exe \in Executables
    ELSE \E i \in DOMAIN SearchPath(env) :
            (SearchPath(env)[i] \o "/" \o exe) \in Executables
OffendingPaths ==
    {cmp \in {self.cc, self.cxx, self.f77, self.fc} :
        /\ cmp # PyNone
        /\ cmp # PyStr("")
        /\ ~UsableExecutable(cmp.s, ScopeEnviron(self, environ))}

C24_ProbeFailureIsRecorded ==
    last # NoCall =>
        /\ last.outcome = "returned"
        /\ from_dict_accepts(last.returned)
        /\ last.real.process_error =>
              DictGet(last.returned, "real_version") = PyStr("unknown")
        /\ last.output.process_error =>
              DictGet(last.returned, "c_compiler_output") = PyNone
        /\ (/\ ~last.real.process_error
            /\ \A i \in 1..Len(last.ran_version.output) :
                  ~IsVersionChar(CharAt(last.ran_version.output, i))
            /\ class_of(self) = "Gcc") =>
              DictGet(last.returned, "real_version") = PyStr("unknown")
        /\ environ = last.environ

\* Both invocations of a compiler that is there failed, inside scopes that
\* had loaded modules and set names in an environment that had none.
C24_Witness ==
    /\ last # NoCall
    /\ self.cc = PyStr("/usr/bin/gcc")
    /\ last.ran_version = ProcessFails
    /\ last.output.invoked /\ last.output.process_error
    /\ last.real.process_error
    /\ \A n \in EnvNames : last.environ[n] = Unset
    /\ \A n \in EnvNames : last.real.inside[n] # Unset
    /\ last.returned = ProbeFailure
    /\ environ = last.environ

(***************************************************************************)
(* Properties of get_compiler_version_output (under SpecMemo).             *)
(***************************************************************************)
\* What the executable at an absolute path prints for the argument.
OutputOf(path, version_arg) ==
    path \o (IF version_arg = "" THEN ": no input files"
             ELSE " " \o version_arg \o ": 1.0")
\* The absolute path the last call's compiler_path stood for when the call
\* was made, None for a name that was not on PATH.
ResolvedAtCall ==
    IF isabs(last.compiler_path) THEN PyStr(last.compiler_path)
    ELSE which_string(last.compiler_path, last.environ)

\* C19: whatever calls were made and however PATH changed between them,
\* every key of the memo table is an absolute path with the argument and
\* holds the output of the executable at that path; a call that returned
\* gave the output of the executable its compiler_path resolved to when the
\* call was made; and a call with a name that resolved to nothing raised
\* and recorded nothing.
C19_MemoKeyedByResolvedPath ==
    /\ \A e \in func_cache :
          /\ isabs(e.args[1])
          /\ e.result = OutputOf(e.args[1], e.args[2])
    /\ last.outcome = "returned"
       => /\ ResolvedAtCall # PyNone
          /\ last.output = OutputOf(ResolvedAtCall.s, last.version_arg)
    /\ (last.outcome # "none" /\ ResolvedAtCall = PyNone)
       => /\ last.outcome = "CommandNotFoundError"
          /\ func_cache = last.func_cache
\* The name cc was asked about under one PATH and again under another: the
\* table holds the outputs of both executables, and the last call returned
\* that of the one cc stands for now.
C19_Witness ==
    /\ last.outcome = "returned"
    /\ last.compiler_path = "cc"
    /\ last.version_arg = "--version"
    /\ last.output = "/usr/bin/cc --version: 1.0"
    /\ [args |-> <<"/opt/cray/bin/cc", "--version">>,
        result |-> "/opt/cray/bin/cc --version: 1.0"] \in last.func_cache
    /\ [args |-> <<"/usr/bin/cc", "--version">>,
        result |-> "/usr/bin/cc --version: 1.0"] \in func_cache

=============================================================================
